---- MODULE Spec2Model ----
(***************************************************************************)
(* Model of the duplicate-detection engine of react-native-reuse-finder:   *)
(* SimilarityDetector (src/src/similarity/similarity-detector.ts).         *)
(*                                                                         *)
(* Numbers of the program are IEEE doubles.  They are modelled as exact    *)
(* rationals [n, d] in lowest terms with d > 0, plus the value NaN         *)
(* (d = 0), which is what 0/0 evaluates to and which every arithmetic      *)
(* operation propagates and every comparison answers false on.  Strings    *)
(* are sequences of one-character strings.                                 *)
(***************************************************************************)
EXTENDS Integers, Sequences, FiniteSets, TLC

VARIABLES
    snippets,        \* the argument of findDuplicates: a sequence of CodeSnippet
    minSimilarity,   \* this.minSimilarity
    fastMode,        \* this.fastMode
    pc,              \* position inside findDuplicates
    typeIdx,         \* position of the for-of loop over snippetsByType
    groups,          \* findDuplicates' local `groups`
    processed,       \* findDuplicates' local `processed` (a set of ids)
    remaining,       \* remainingSnippets of the current type
    i,               \* loop index of findSimilarSnippetsOptimized
    optGroups,       \* findSimilarSnippetsOptimized's local `groups`
    optProcessed,    \* findSimilarSnippetsOptimized's local `processed`
    scored,          \* log of the calls of calculateSimilarity made so far
    result,          \* the value returned by findDuplicates
    lastScore,       \* the value returned by a direct call of calculateSimilarity
    lastCall,        \* a direct call of one of the other functions, with its value
    firstResult,     \* the value returned by an earlier findDuplicates on the same detector
    reported         \* the duplicates the analyze operation hands to its output

vars == <<snippets, minSimilarity, fastMode, pc, typeIdx, groups, processed,
          remaining, i, optGroups, optProcessed, scored, result, lastScore,
          lastCall, firstResult, reported>>

----------------------------------------------------------------------------
(* Bounds of the model and constants of the program.                       *)

MaxSnippets == 3

kGramSize == 7

maxShingles == 100

----------------------------------------------------------------------------
(* Numbers.                                                                *)

RECURSIVE GCD(_, _)
GCD(a, b) == IF b = 0 THEN a ELSE GCD(b, a % b)

Abs(x) == IF x < 0 THEN -x ELSE x

Min2(a, b) == IF a < b THEN a ELSE b

Max2(a, b) == IF a > b THEN a ELSE b

NaN == [n |-> 0, d |-> 0]

IsNaN(x) == x.d = 0

\* the rational n/d in lowest terms; 0/0 is NaN
R(n, d) ==
    IF d = 0 THEN NaN
    ELSE LET g == GCD(Abs(n), Abs(d))
             s == IF d < 0 THEN -1 ELSE 1
         IN  [n |-> (s * n) \div g, d |-> (s * d) \div g]

Zero == R(0, 1)

One == R(1, 1)

RAdd(x, y) ==
    IF IsNaN(x) \/ IsNaN(y) THEN NaN ELSE R(x.n * y.d + y.n * x.d, x.d * y.d)

RSub(x, y) ==
    IF IsNaN(x) \/ IsNaN(y) THEN NaN ELSE R(x.n * y.d - y.n * x.d, x.d * y.d)

RMul(x, y) ==
    IF IsNaN(x) \/ IsNaN(y) THEN NaN ELSE R(x.n * y.n, x.d * y.d)

\* x / y.  Every division of the program has 0 <= x <= y or y >= 1, so the
\* only division by zero it can make is 0/0.
RDiv(x, y) ==
    IF IsNaN(x) \/ IsNaN(y) \/ y.n = 0 THEN NaN ELSE R(x.n * y.d, x.d * y.n)

RLt(x, y) == ~IsNaN(x) /\ ~IsNaN(y) /\ x.n * y.d < y.n * x.d

RGt(x, y) == ~IsNaN(x) /\ ~IsNaN(y) /\ x.n * y.d > y.n * x.d

RLe(x, y) == ~IsNaN(x) /\ ~IsNaN(y) /\ x.n * y.d <= y.n * x.d

RGe(x, y) == ~IsNaN(x) /\ ~IsNaN(y) /\ x.n * y.d >= y.n * x.d

RECURSIVE RSum(_)
RSum(s) == IF Len(s) = 0 THEN Zero ELSE RAdd(RSum(SubSeq(s, 1, Len(s) - 1)), s[Len(s)])

----------------------------------------------------------------------------
(* Strings.                                                                *)

Range(s) == {s[ri] : ri \in 1..Len(s)}

IsSpace(c) == c = " "

\* String.prototype.split(/\s+/): the pieces between maximal runs of white
\* space, the empty pieces at both ends included ("" splits into [""]).
\* The pieces are the maximal runs of other characters, found by their first
\* positions, with an empty piece in front when the text starts with white
\* space and one behind when it ends with white space.
wordStarts(s) ==
    {ws \in 1..Len(s) : ~IsSpace(s[ws]) /\ (ws = 1 \/ IsSpace(s[ws - 1]))}

wordEnd(s, from) ==
    CHOOSE we \in from..Len(s) :
        /\ \A wk \in from..we : ~IsSpace(s[wk])
        /\ (we = Len(s) \/ IsSpace(s[we + 1]))

Split(s) ==
    IF Len(s) = 0 THEN <<<<>>>>
    ELSE LET starts == wordStarts(s)
             nth(k) == CHOOSE ws \in starts : Cardinality({wq \in starts : wq <= ws}) = k
             words  == [k \in 1..Cardinality(starts) |-> SubSeq(s, nth(k), wordEnd(s, nth(k)))]
         IN  (IF IsSpace(s[1]) THEN <<<<>>>> ELSE <<>>)
             \o words
             \o (IF IsSpace(s[Len(s)]) THEN <<<<>>>> ELSE <<>>)

\* Array.prototype.join(' ')
RECURSIVE Join(_)
Join(toks) ==
    IF Len(toks) = 0 THEN <<>>
    ELSE IF Len(toks) = 1 THEN toks[1]
    ELSE LET half == Len(toks) \div 2
         IN  Join(SubSeq(toks, 1, half)) \o <<" ">> \o Join(SubSeq(toks, half + 1, Len(toks)))

----------------------------------------------------------------------------
(* The fingerprints of the parser (ast-parser.ts, lines 363-390).          *)
(* A 32-bit integer is a TLA+ integer between -2^31 and 2^31 - 1, handled  *)
(* by its halves of 16 bits so that no intermediate value leaves that      *)
(* range; a sum of such integers (a JavaScript number, exact below 2^53)   *)
(* is a pair of a high part and a low part of 16 bits.                     *)

\* the characters of codes 32 to 126, in the order of their codes; four of
\* them, which no text here holds, are written by their names
Ascii ==
    <<" ", "!", "quote", "#", "$", "%", "&", "apostrophe", "(", ")", "*", "+", ",", "-", ".", "/",
      "0", "1", "2", "3", "4", "5", "6", "7", "8", "9", ":", ";", "<", "=", ">", "?",
      "@", "A", "B", "C", "D", "E", "F", "G", "H", "I", "J", "K", "L", "M", "N", "O",
      "P", "Q", "R", "S", "T", "U", "V", "W", "X", "Y", "Z", "[", "backslash", "]", "^", "_",
      "backtick", "a", "b", "c", "d", "e", "f", "g", "h", "i", "j", "k", "l", "m", "n", "o",
      "p", "q", "r", "s", "t", "u", "v", "w", "x", "y", "z", "{", "|", "}", "~">>

\* String.prototype.charCodeAt
charCodeAt(c) == 31 + (CHOOSE k \in 1..Len(Ascii) : Ascii[k] = c)

Half == 65536

highHalf(n) == n \div Half

lowHalf(n) == n % Half

\* the signed 16-bit value congruent to x
wrap16(x) == ((x + (Half \div 2)) % Half) - (Half \div 2)

fromHalves(high, low) == wrap16(high) * Half + low

\* hash << 5
shiftLeft5(n) ==
    fromHalves(highHalf(n) * 32 + ((lowHalf(n) * 32) \div Half), (lowHalf(n) * 32) % Half)

\* lines 377-378 with `(hash << 5) + hash`: the multiplier is 33
hashStepPlus(hash, char) ==
    LET shifted == shiftLeft5(hash)
        low     == lowHalf(shifted) + lowHalf(hash) + char
    IN  fromHalves(highHalf(shifted) + highHalf(hash) + (low \div Half), low % Half)

\* lines 377-378: hash = ((hash << 5) - hash) + char; hash = hash & hash
hashStep(hash, char) ==
    LET shifted == shiftLeft5(hash)
        low     == lowHalf(shifted) - lowHalf(hash) + char
    IN  fromHalves(highHalf(shifted) - highHalf(hash) + (low \div Half), low % Half)

\* the loop of lines 375-379 over the characters k..last of the body, one
\* after the other, half by half
RECURSIVE hashFrom(_, _, _, _)
hashFrom(body, k, last, hash) ==
    IF k > last THEN hash
    ELSE IF k = last THEN hashStep(hash, charCodeAt(body[k]))
    ELSE LET half == hashFrom(body, k, (k + last) \div 2, hash)
         IN  \* (the test makes the hash a value before the rest is read)
             IF half >= 0 \/ half < 0
             THEN hashFrom(body, ((k + last) \div 2) + 1, last, half)
             ELSE 0

\* the classes \s and \w of the patterns of lines 368-372
IsWord(c) ==
    \/ charCodeAt(c) \in 48..57
    \/ charCodeAt(c) \in 65..90
    \/ charCodeAt(c) \in 97..122
    \/ c = "_"

\* The pieces of a match at a position of s; a position is the index of the
\* next character to match and 0 stands for no match.
literalAt(s, pos, word) ==
    IF pos # 0 /\ pos + Len(word) - 1 <= Len(s) /\ SubSeq(s, pos, pos + Len(word) - 1) = word
    THEN pos + Len(word)
    ELSE 0

\* \s* : the longest run of white space
spacesAt(s, pos) ==
    IF pos = 0 THEN 0
    ELSE CHOOSE q \in pos..(Len(s) + 1) :
             /\ \A r \in pos..(q - 1) : IsSpace(s[r])
             /\ (q = Len(s) + 1 \/ ~IsSpace(s[q]))

\* \s+
someSpacesAt(s, pos) == IF spacesAt(s, pos) > pos THEN spacesAt(s, pos) ELSE 0

\* \w+
wordAt(s, pos) ==
    IF pos = 0 THEN 0
    ELSE LET q == CHOOSE q \in pos..(Len(s) + 1) :
                      /\ \A r \in pos..(q - 1) : IsWord(s[r])
                      /\ (q = Len(s) + 1 \/ ~IsWord(s[q]))
         IN  IF q > pos THEN q ELSE 0

\* \([^)]*\)
parametersAt(s, pos) ==
    LET open == literalAt(s, pos, <<"(">>)
    IN  IF open = 0 THEN 0
        ELSE IF \E q \in open..Len(s) : s[q] = ")"
             THEN 1 + (CHOOSE q \in open..Len(s) :
                           s[q] = ")" /\ \A r \in open..(q - 1) : s[r] # ")")
             ELSE 0

\* /export\s+const\s+\w+\s*=\s*\([^)]*\)\s*=>\s*/ matched at position pos:
\* the position after the match, 0 when there is none.  The pieces are
\* matched one after the other and the first that fails ends the match.
constHeaderAt(s, pos) ==
    LET export == literalAt(s, pos, <<"e", "x", "p", "o", "r", "t">>)
    IN  IF export = 0 THEN 0
        ELSE LET const == literalAt(s, someSpacesAt(s, export), <<"c", "o", "n", "s", "t">>)
        IN  IF const = 0 THEN 0
        ELSE LET name == wordAt(s, someSpacesAt(s, const))
        IN  IF name = 0 THEN 0
        ELSE LET equals == literalAt(s, spacesAt(s, name), <<"=">>)
        IN  IF equals = 0 THEN 0
        ELSE LET parameters == parametersAt(s, spacesAt(s, equals))
        IN  IF parameters = 0 THEN 0
        ELSE LET arrow == literalAt(s, spacesAt(s, parameters), <<"=", ">">>)
        IN  IF arrow = 0 THEN 0
        ELSE spacesAt(s, arrow)

\* /export\s+function\s+\w+\s*\([^)]*\)\s*/ matched at position pos
functionHeaderAt(s, pos) ==
    LET export == literalAt(s, pos, <<"e", "x", "p", "o", "r", "t">>)
    IN  IF export = 0 THEN 0
        ELSE LET function == literalAt(s, someSpacesAt(s, export),
                                       <<"f", "u", "n", "c", "t", "i", "o", "n">>)
        IN  IF function = 0 THEN 0
        ELSE LET name == wordAt(s, someSpacesAt(s, function))
        IN  IF name = 0 THEN 0
        ELSE LET parameters == parametersAt(s, spacesAt(s, name))
        IN  IF parameters = 0 THEN 0
        ELSE spacesAt(s, parameters)

\* s without its characters from position from to position to - 1
without(s, from, to) == SubSeq(s, 1, from - 1) \o SubSeq(s, to, Len(s))

\* line 368: replace of the first match
withoutConstHeader(s) ==
    LET starts == {p \in 1..Len(s) : constHeaderAt(s, p) # 0}
    IN  IF starts = {} THEN s
        ELSE LET first == CHOOSE p \in starts : \A q \in starts : p <= q
             IN  without(s, first, constHeaderAt(s, first))

\* line 369
withoutFunctionHeader(s) ==
    LET starts == {p \in 1..Len(s) : functionHeaderAt(s, p) # 0}
    IN  IF starts = {} THEN s
        ELSE LET first == CHOOSE p \in starts : \A q \in starts : p <= q
             IN  without(s, first, functionHeaderAt(s, first))

\* line 372: replace of a semicolon at the end
withoutClosingSemicolon(s) ==
    IF Len(s) > 0 /\ s[Len(s)] = ";" THEN SubSeq(s, 1, Len(s) - 1) ELSE s

\* lines 365-372
functionBody(content) ==
    withoutClosingSemicolon(withoutFunctionHeader(withoutConstHeader(content)))

\* A number as its high part and its low part of 16 bits.
asPair(n) == [high |-> highHalf(n), low |-> lowHalf(n)]

pairZero == [high |-> 0, low |-> 0]

pairAdd(a, b) ==
    [high |-> a.high + b.high + ((a.low + b.low) \div Half), low |-> (a.low + b.low) % Half]

pairNeg(a) ==
    IF a.low = 0 THEN [high |-> -a.high, low |-> 0]
    ELSE [high |-> -a.high - 1, low |-> Half - a.low]

Digits36 ==
    <<"0", "1", "2", "3", "4", "5", "6", "7", "8", "9", "a", "b", "c", "d", "e", "f", "g", "h",
      "i", "j", "k", "l", "m", "n", "o", "p", "q", "r", "s", "t", "u", "v", "w", "x", "y", "z">>

\* the digits in base 36 of a number above 0, the highest first
RECURSIVE digits36(_)
digits36(a) ==
    IF a = pairZero THEN <<>>
    ELSE LET rest == (a.high % 36) * Half + a.low
         IN  digits36([high |-> a.high \div 36, low |-> rest \div 36])
             \o <<Digits36[(rest % 36) + 1]>>

\* Number.prototype.toString(36) of an integer
toString36(a) ==
    IF a = pairZero THEN <<"0">>
    ELSE IF a.high < 0 THEN <<"-">> \o digits36(pairNeg(a))
    ELSE digits36(a)

digitValue(c) == (CHOOSE k \in 1..36 : Digits36[k] = c) - 1

\* the value of the digits of str from position k on, after the value acc
RECURSIVE valueFrom(_, _, _)
valueFrom(str, k, acc) ==
    IF k > Len(str) THEN acc
    ELSE valueFrom(str, k + 1,
                   [high |-> acc.high * 36 + ((acc.low * 36 + digitValue(str[k])) \div Half),
                    low  |-> (acc.low * 36 + digitValue(str[k])) % Half])

\* parseInt(str, 36) of a sign and digits
parseInt36(str) ==
    IF Len(str) > 0 /\ str[1] = "-"
    THEN pairNeg(valueFrom(str, 2, pairZero))
    ELSE valueFrom(str, 1, pairZero)

\* ASTParser.generateHash (lines 363-381)
generateHash(content) ==
    LET functionBodyOf == functionBody(content)
    IN  toString36(asPair(hashFrom(functionBodyOf, 1, Len(functionBodyOf), 0)))

\* the reduce of lines 386-388 over the tokens k..last, one after the other,
\* half by half
RECURSIVE sumFrom(_, _, _, _)
sumFrom(tokens, k, last, acc) ==
    IF k > last THEN acc
    ELSE IF k = last THEN pairAdd(acc, parseInt36(generateHash(tokens[k])))
    ELSE LET half == sumFrom(tokens, k, (k + last) \div 2, acc)
         IN  \* (the test makes the sum a value before the rest is added)
             IF half.low >= 0
             THEN sumFrom(tokens, ((k + last) \div 2) + 1, last, half)
             ELSE pairZero

\* one hash of the whole text in the place of the sum over its tokens
generateSimHashOfText(content) == generateHash(Join(Split(content)))

\* ASTParser.generateSimHash (lines 383-390)
generateSimHash(content) ==
    LET tokens == Split(content)
    IN  toString36(sumFrom(tokens, 1, Len(tokens), pairZero))

----------------------------------------------------------------------------
(* The four metrics (similarity-detector.ts, lines 147-225).               *)

\* hash1[pos] || '' : the character at 1-based position pos, '' past the end
CharAt(h, pos) == IF pos <= Len(h) THEN h[pos] ELSE ""

\* line 149 with the length of the first fingerprint in the place of the
\* longer length
calculateSimHashSimilarityByFirst(hash1, hash2) ==
    LET maxLength == Len(hash1)
        distance  == Cardinality({pos \in 1..maxLength : CharAt(hash1, pos) # CharAt(hash2, pos)})
    IN  RSub(One, RDiv(R(distance, 1), R(maxLength, 1)))

calculateSimHashSimilarity(hash1, hash2) ==
    LET maxLength == Max2(Len(hash1), Len(hash2))
        distance  == Cardinality({pos \in 1..maxLength : CharAt(hash1, pos) # CharAt(hash2, pos)})
    IN  RSub(One, RDiv(R(distance, 1), R(maxLength, 1)))

\* lines 192-196 without `count < maxShingles`: every window is added
generateShinglesOfAllWindows(content) ==
    LET tokens == Split(content)
    IN  {Join(SubSeq(tokens, w, w + kGramSize - 1)) : w \in 1..(Len(tokens) - kGramSize + 1)}

\* one turn of the loop of lines 192-196 (si is 0-based); `count` is kept
\* with the set, and a turn whose condition fails leaves both as they are
shingleTurn(tokens, si, trace) ==
    IF si <= Len(tokens) - kGramSize /\ trace.count < maxShingles
    THEN [shingles |-> trace.shingles \cup {Join(SubSeq(tokens, si + 1, si + kGramSize))},
          count    |-> trace.count + 1]
    ELSE trace

\* the turns si..last of the loop, one after the other, half by half
RECURSIVE shinglesFrom(_, _, _, _)
shinglesFrom(tokens, si, last, trace) ==
    IF si > last THEN trace
    ELSE IF si = last THEN shingleTurn(tokens, si, trace)
    ELSE LET half == shinglesFrom(tokens, si, (si + last) \div 2, trace)
         IN  \* (the test makes the set a value before the rest is added)
             IF half.shingles # {} \/ half.count >= 0
             THEN shinglesFrom(tokens, ((si + last) \div 2) + 1, last, half)
             ELSE half

\* lines 184-199 with the number of windows produced
generateShinglesTrace(content) ==
    LET tokens == Split(content)
    IN  shinglesFrom(tokens, 0, Len(tokens) - kGramSize, [shingles |-> {}, count |-> 0])

generateShingles(content) == generateShinglesTrace(content).shingles

\* line 165 with >= in the place of >
lengthsTooDifferentOrEqual(content1, content2) ==
    LET lengthDiff == Abs(Len(content1) - Len(content2))
        maxLength  == Max2(Len(content1), Len(content2))
    IN  RGe(RDiv(R(lengthDiff, 1), R(maxLength, 1)), R(7, 10))

\* TRUE when calculateShingleSimilarity returns at its early exit
lengthsTooDifferent(content1, content2) ==
    LET lengthDiff == Abs(Len(content1) - Len(content2))
        maxLength  == Max2(Len(content1), Len(content2))
    IN  RGt(RDiv(R(lengthDiff, 1), R(maxLength, 1)), R(7, 10))

\* The value calculateShingleSimilarity returns, with whether it called
\* generateShingles on the way.
calculateShingleSimilarityTrace(content1, content2) ==
    IF lengthsTooDifferent(content1, content2) THEN [value |-> Zero, shingled |-> FALSE]
    ELSE LET shingles1    == generateShingles(content1)
             shingles2    == generateShingles(content2)
             intersection == Cardinality(shingles1 \cap shingles2)
             union        == Cardinality(shingles1) + Cardinality(shingles2) - intersection
         IN  [value |-> RDiv(R(intersection, 1), R(union, 1)), shingled |-> TRUE]

calculateShingleSimilarity(content1, content2) ==
    calculateShingleSimilarityTrace(content1, content2).value

\* one row of the matrix: row[col] is matrix[j][col-1].  The cells are
\* filled from left to right as the inner loop of lines 213-221 does; the
\* columns up to `last` are filled half by half, so that the evaluation
\* nests no deeper than the logarithm of the length of str1.
RECURSIVE LevRow(_, _, _, _, _)
LevRow(prev, str1, c2, row, last) ==
    LET col == Len(row)  \* the column to fill: matrix[j][col]
    IN  IF col > last THEN row
        ELSE IF col = last
        THEN LET indicator == IF str1[col] = c2 THEN 0 ELSE 1
                 v == Min2(Min2(row[col] + 1, prev[col + 1] + 1), prev[col] + indicator)
             IN  \* (the test makes v a value before it is stored)
                 IF v >= 0 THEN Append(row, v) ELSE row
        ELSE LET half == LevRow(prev, str1, c2, row, (col + last) \div 2)
             IN  \* (the test makes the half a value before the rest is built)
                 IF Len(half) > 0 THEN LevRow(prev, str1, c2, half, last) ELSE half

\* the rows j..last of the matrix one after the other (the outer loop of
\* line 212), half by half; the value is the row `last`
RECURSIVE LevRows(_, _, _, _, _)
LevRows(prev, str1, str2, j, last) ==
    IF j > last THEN prev
    ELSE IF j = last THEN LevRow(prev, str1, str2[j], <<j>>, Len(str1))
    ELSE LET row == LevRows(prev, str1, str2, j, (j + last) \div 2)
         IN  \* (the test makes the row a value before the next ones are built)
             IF Len(row) > 0 THEN LevRows(row, str1, str2, ((j + last) \div 2) + 1, last)
             ELSE row

levenshteinDistance(str1, str2) ==
    LET row0 == [c0 \in 1..(Len(str1) + 1) |-> c0 - 1]
    IN  LevRows(row0, str1, str2, 1, Len(str2))[Len(str1) + 1]

calculateEditDistanceSimilarity(content1, content2) ==
    LET distance  == levenshteinDistance(content1, content2)
        maxLength == Max2(Len(content1), Len(content2))
    IN  RSub(One, RDiv(R(distance, 1), R(maxLength, 1)))

----------------------------------------------------------------------------
(* The score of a pair (similarity-detector.ts, lines 106-145).            *)

\* lines 139-144 with the weights 0.3, 0.2 and 0.1 of the earlier version of
\* the detector (src/unnamed/part_001), whose 0.4 goes to the hash match
weightedScoreEarlierWeights(simHashSimilarity, shingleSimilarity, editDistanceSimilarity) ==
    [value   |-> RAdd(RAdd(RMul(simHashSimilarity, R(3, 10)),
                           RMul(shingleSimilarity, R(2, 10))),
                      RMul(editDistanceSimilarity, R(1, 10))),
     metrics |-> {"simHash", "shingle", "editDistance"}]

\* lines 139-144: the weighted combination
weightedScore(simHashSimilarity, shingleSimilarity, editDistanceSimilarity) ==
    [value   |-> RAdd(RAdd(RMul(simHashSimilarity, R(5, 10)),
                           RMul(shingleSimilarity, R(3, 10))),
                      RMul(editDistanceSimilarity, R(2, 10))),
     metrics |-> {"simHash", "shingle", "editDistance"}]

\* lines 131-144: what follows the computation of the shingle similarity
afterShingle(snippet1, snippet2, simHashSimilarity, shingleSimilarity) ==
    IF RLt(shingleSimilarity, R(3, 10))
    THEN [value   |-> RDiv(RAdd(simHashSimilarity, shingleSimilarity), R(2, 1)),
          metrics |-> {"simHash", "shingle"}]
    ELSE weightedScore(simHashSimilarity, shingleSimilarity,
                       calculateEditDistanceSimilarity(snippet1.normalizedContent,
                                                       snippet2.normalizedContent))

\* lines 114-144 without the early return of lines 121-123
afterSimHashIgnoringFastMode(snippet1, snippet2, simHashSimilarity) ==
    IF RGt(simHashSimilarity, R(9, 10))
    THEN [value |-> simHashSimilarity, metrics |-> {"simHash"}]
    ELSE IF RLt(simHashSimilarity, R(1, 2))
    THEN [value |-> simHashSimilarity, metrics |-> {"simHash"}]
    ELSE afterShingle(snippet1, snippet2, simHashSimilarity,
                      calculateShingleSimilarity(snippet1.normalizedContent,
                                                 snippet2.normalizedContent))

\* lines 114-144: what follows the computation of the simhash similarity
afterSimHash(snippet1, snippet2, simHashSimilarity) ==
    IF RGt(simHashSimilarity, R(9, 10))
    THEN [value |-> simHashSimilarity, metrics |-> {"simHash"}]
    ELSE IF fastMode
    THEN [value |-> simHashSimilarity, metrics |-> {"simHash"}]
    ELSE IF RLt(simHashSimilarity, R(1, 2))
    THEN [value |-> simHashSimilarity, metrics |-> {"simHash"}]
    ELSE afterShingle(snippet1, snippet2, simHashSimilarity,
                      calculateShingleSimilarity(snippet1.normalizedContent,
                                                 snippet2.normalizedContent))

\* The value calculateSimilarity returns, with the metrics it computed on
\* the way.
calculateSimilarityTrace(snippet1, snippet2) ==
    IF snippet1.hash = snippet2.hash
    THEN [value |-> One, metrics |-> {}]
    ELSE afterSimHash(snippet1, snippet2,
                      calculateSimHashSimilarity(snippet1.simHash, snippet2.simHash))

calculateSimilarity(snippet1, snippet2) ==
    calculateSimilarityTrace(snippet1, snippet2).value

----------------------------------------------------------------------------
(* Reuse score and suggestion (similarity-detector.ts, lines 227-284).     *)
(* A member list is a sequence of positions of `snippets`: the program     *)
(* holds references to the objects of its input, not copies.               *)

calculateReuseScore(members, similarity) ==
    LET totalSize        == RSum([m \in 1..Len(members) |-> R(snippets[members[m]].size, 1)])
        duplicationCount == R(Len(members), 1)
        avgChurnWeight   ==
            RDiv(RSum([m \in 1..Len(members) |-> snippets[members[m]].churnWeight]),
                 R(Len(members), 1))
    IN  RMul(RMul(RMul(totalSize, similarity), duplicationCount), avgChurnWeight)

suggestTargetModule(type) ==
    CASE type = "component"  -> "shared/components"
      [] type = "hook"       -> "shared/hooks"
      [] type = "stylesheet" -> "shared/styles"
      [] type = "utility"    -> "shared/utils"
      [] type = "animation"  -> "shared/animations"
      [] type = "navigation" -> "shared/navigation"
      [] type = "api_client" -> "shared/api"
      [] type = "function"   -> "shared/utils"
      [] OTHER               -> "shared/utils"

\* Math.round((1 - 1/n) * 100) for n >= 1: the nearest integer, halves upwards
reductionPercent(n) == (200 * (n - 1) + n) \div (2 * n)

\* lines 286-290
generateCodeTemplate(members, suggestionType) ==
    <<"Generated template for", snippets[members[1]].type>>

\* lines 257-268: the returned object.  The description is the tuple of the
\* pieces of its template string, and of the three benefits the first is kept
\* as the percentage it names (the two others are constant texts).
suggestionOf(members, suggestionType, description, estimatedEffort) ==
    [type            |-> suggestionType,
     description     |-> description,
     targetModule    |-> suggestTargetModule(snippets[members[1]].type),
     codeTemplate    |-> generateCodeTemplate(members, suggestionType),
     estimatedEffort |-> estimatedEffort,
     benefits        |-> <<<<"Reduce duplication by", reductionPercent(Len(members)), "%">>,
                           "Improve maintainability",
                           "Enable consistent behavior across components">>]

\* lines 243-255 with >= in the place of > at 0.95
generateSuggestionAtLeast(members, similarity) ==
    LET firstSnippet == snippets[members[1]]
    IN  IF RGe(similarity, R(95, 100))
        THEN suggestionOf(members, "extract",
                          <<"Extract", firstSnippet.type, "to shared module">>, "low")
        ELSE IF RGt(similarity, R(85, 100))
        THEN suggestionOf(members, "consolidate",
                          <<"Consolidate similar", firstSnippet.type, "s with parameters">>,
                          "medium")
        ELSE suggestionOf(members, "parameterize",
                          <<"Parameterize", firstSnippet.type, "for reuse">>, "high")

generateSuggestion(members, similarity) ==
    LET firstSnippet == snippets[members[1]]
    IN  IF RGt(similarity, R(95, 100))
        THEN suggestionOf(members, "extract",
                          <<"Extract", firstSnippet.type, "to shared module">>, "low")
        ELSE IF RGt(similarity, R(85, 100))
        THEN suggestionOf(members, "consolidate",
                          <<"Consolidate similar", firstSnippet.type, "s with parameters">>,
                          "medium")
        ELSE suggestionOf(members, "parameterize",
                          <<"Parameterize", firstSnippet.type, "for reuse">>, "high")

createDuplicateGroup(members, similarity) ==
    [id         |-> <<"group", snippets[members[1]].id>>,
     snippets   |-> members,
     similarity |-> similarity,
     reuseScore |-> calculateReuseScore(members, similarity),
     suggestion |-> generateSuggestion(members, similarity)]

----------------------------------------------------------------------------
(* Inputs.  A CodeSnippet is a record of the fields the detector reads.    *)
(* As in ASTParser, the id of a snippet is its location, its size belongs  *)
(* to its text, and hash and simHash are the values generateHash and       *)
(* generateSimHash give for the text; churnWeight is set per file.         *)

\* the text made of one-letter tokens separated by single spaces
W(letters) == Join([li \in 1..Len(letters) |-> <<letters[li]>>])

ContentA ==
    [normalizedContent |-> W(<<"a", "b", "c", "d", "e", "f", "g", "h">>),
     hash |-> "-ncmf98", simHash |-> <<"m", "c">>, size |-> 120]

ContentB ==
    [normalizedContent |-> W(<<"a", "b", "c", "d", "e", "f", "g", "i">>),
     hash |-> "-ncmf97", simHash |-> <<"m", "d">>, size |-> 100]

ContentC ==
    [normalizedContent |-> W(<<"e", "f", "g", "h", "i", "j", "k", "q">>),
     hash |-> "jd02g9", simHash |-> <<"n", "d">>, size |-> 150]

Contents == {ContentA, ContentB, ContentC}

Location(filePath, startLine, endLine) ==
    [filePath |-> filePath, startLine |-> startLine, endLine |-> endLine]

Locations ==
    {Location("f1", 1, 8), Location("f1", 3, 9), Location("f1", 10, 17), Location("f2", 1, 8)}

churnOf(filePath) == IF filePath = "f1" THEN One ELSE R(3, 2)

Snippet(type, content, loc) ==
    [id                |-> <<loc.filePath, loc.startLine, loc.endLine>>,
     type              |-> type,
     normalizedContent |-> content.normalizedContent,
     hash              |-> content.hash,
     simHash           |-> content.simHash,
     size              |-> content.size,
     filePath          |-> loc.filePath,
     startLine         |-> loc.startLine,
     endLine           |-> loc.endLine,
     churnWeight       |-> churnOf(loc.filePath)]

\* The snippets the lists are drawn from.  Two of the locations of f1 start
\* within five lines of each other; the others are pairwise further apart or
\* in different files.  The location f1:10-17 occurs with two texts and the
\* locations f1:1-8 and f2:1-8 with two types: findDuplicates takes any
\* array, and lines 325-327 provide for ids that repeat.
Occurrences ==
    ({"function"} \X {ContentA} \X Locations \ {<<"function", ContentA, Location("f2", 1, 8)>>})
    \cup {<<"function", ContentB, Location("f1", 3, 9)>>,
          <<"function", ContentB, Location("f2", 1, 8)>>,
          <<"function", ContentC, Location("f1", 10, 17)>>,
          <<"component", ContentA, Location("f1", 1, 8)>>,
          <<"component", ContentB, Location("f2", 1, 8)>>}

Universe == {Snippet(o[1], o[2], o[3]) : o \in Occurrences}

MinSims == {Zero, R(1, 4), R(1, 2), One}

----------------------------------------------------------------------------
(* findDuplicates and its helpers (similarity-detector.ts, lines 14-104    *)
(* and 293-341).                                                           *)

\* the elements of a set of integers in ascending order
RECURSIVE Ascending(_)
Ascending(S) ==
    IF S = {} THEN <<>>
    ELSE LET m == CHOOSE x \in S : \A y \in S : x <= y
         IN  <<m>> \o Ascending(S \ {m})

\* the distinct values of ks in order of first appearance (the key order of a
\* Map filled while walking an array whose keys are ks)
KeysInOrder(ks) ==
    LET first == Ascending({kk \in 1..Len(ks) : \A kj \in 1..(kk - 1) : ks[kj] # ks[kk]})
    IN  [kk \in 1..Len(first) |-> ks[first[kk]]]

Positions == [p0 \in 1..Len(snippets) |-> p0]

\* snippetsByType without the partition of lines 18-24: every snippet in one
\* list, whatever its type
snippetsInOneList == IF Len(snippets) = 0 THEN <<>> ELSE <<Positions>>

\* snippetsByType, as the sequence of its values in insertion order
snippetsByType ==
    LET types == KeysInOrder([p \in 1..Len(snippets) |-> snippets[p].type])
    IN  [t \in 1..Len(types) |->
            LET OfType(p) == snippets[p].type = types[t] IN SelectSeq(Positions, OfType)]

\* groupByHash, as the sequence of its values in insertion order
groupByHash(members) ==
    LET hashes == KeysInOrder([m \in 1..Len(members) |-> snippets[members[m]].hash])
    IN  [h \in 1..Len(hashes) |->
            LET WithHash(p) == snippets[p].hash = hashes[h] IN SelectSeq(members, WithHash)]

IdsOf(members) == {snippets[members[mi]].id : mi \in 1..Len(members)}

\* line 83 with > in the place of >=
joinsStrictly(similarity) == RGt(similarity, minSimilarity)

\* the test of line 83
joins(similarity) == RGe(similarity, minSimilarity)

\* lines 68-80 without the test of lines 77-80: snippets of one file that
\* start within five lines of each other are compared
skippedWithoutLineRule(target, snippet) ==
    \/ snippet.type # target.type
    \/ snippet.id = target.id
    \/ /\ snippet.filePath = target.filePath
       /\ snippet.startLine = target.startLine
       /\ snippet.endLine = target.endLine

\* the `continue` conditions of lines 68-80
skipped(target, snippet) ==
    \/ snippet.type # target.type
    \/ snippet.id = target.id
    \/ /\ snippet.filePath = target.filePath
       /\ snippet.startLine = target.startLine
       /\ snippet.endLine = target.endLine
    \/ /\ snippet.filePath = target.filePath
       /\ Abs(snippet.startLine - target.startLine) < 5

\* the positions of allSnippets the loop of findSimilarSnippets passes to
\* calculateSimilarity
comparedWith(allSnippets, startIndex) ==
    LET target == snippets[allSnippets[startIndex]]
    IN  {c \in (startIndex + 1)..Len(allSnippets) : ~skipped(target, snippets[allSnippets[c]])}

\* the calls of calculateSimilarity that findSimilarSnippets makes for the
\* anchor at startIndex (line 82), with the values they return
callsOf(allSnippets, startIndex) ==
    {[anchor    |-> allSnippets[startIndex],
      candidate |-> allSnippets[k],
      at        |-> k,
      value     |-> calculateSimilarity(snippets[allSnippets[startIndex]],
                                        snippets[allSnippets[k]])] :
        k \in comparedWith(allSnippets, startIndex)}

\* lines 63-87 with the target pushed after the snippets that joined
similarOfAnchorLast(startIndex, calls) ==
    Ascending({c.at : c \in {d \in calls : joins(d.value)}}) \o <<startIndex>>

\* lines 63-87: the positions of allSnippets that make up `similar`
similarOf(startIndex, calls) ==
    <<startIndex>> \o Ascending({c.at : c \in {d \in calls : joins(d.value)}})

\* lines 64 and 85 with totalSimilarity starting at 0 and not at 1.0
totalSimilarityFromZero(calls) ==
    LET joined == {c \in calls : joins(c.value)}
        at     == Ascending({c.at : c \in joined})
    IN  RSum([k \in 1..Len(at) |-> (CHOOSE c \in joined : c.at = at[k]).value])

\* lines 64 and 85: 1.0 plus the scores of the snippets that joined
totalSimilarityOf(calls) ==
    LET joined == {c \in calls : joins(c.value)}
        at     == Ascending({c.at : c \in joined})
    IN  RAdd(One, RSum([k \in 1..Len(at) |-> (CHOOSE c \in joined : c.at = at[k]).value]))

\* lines 94-103
groupOf(members, avgSimilarity) ==
    [id         |-> <<"group", snippets[members[1]].id>>,
     snippets   |-> members,
     similarity |-> avgSimilarity,
     reuseScore |-> calculateReuseScore(members, avgSimilarity),
     suggestion |-> generateSuggestion(members, avgSimilarity)]

\* lines 89-103; null is the record set apart by `found`
resultOf(allSnippets, similar, calls) ==
    IF Len(similar) <= 1
    THEN [found |-> FALSE]
    ELSE [found |-> TRUE,
          group |-> groupOf([k \in 1..Len(similar) |-> allSnippets[similar[k]]],
                            RDiv(totalSimilarityOf(calls), R(Len(similar), 1)))]

\* findSimilarSnippets(allSnippets[startIndex], allSnippets, startIndex),
\* given the calls of calculateSimilarity it makes
findSimilarSnippets(allSnippets, startIndex, calls) ==
    resultOf(allSnippets, similarOf(startIndex, calls), calls)

\* the filter of lines 325-327: the first occurrence of every id
uniqueSnippets(members) ==
    LET First(uk) == \A uj \in 1..(uk - 1) : snippets[members[uj]].id # snippets[members[uk]].id
        kept     == SelectSeq([uk \in 1..Len(members) |-> uk], First)
    IN  [uk \in 1..Len(kept) |-> members[kept[uk]]]

\* line 55 without the sort: the groups in the order they were pushed
inPushOrder(gs) == gs

\* Array.prototype.sort with (a, b) => b.reuseScore - a.reuseScore: a stable
\* sort by descending reuseScore
RECURSIVE sortByReuseScore(_)
sortByReuseScore(gs) ==
    IF Len(gs) = 0 THEN <<>>
    ELSE LET front  == sortByReuseScore(SubSeq(gs, 1, Len(gs) - 1))
             g      == gs[Len(gs)]
             before == {sk \in 1..Len(front) : RGe(front[sk].reuseScore, g.reuseScore)}
             n      == Cardinality(before)
         IN  SubSeq(front, 1, n) \o <<g>> \o SubSeq(front, n + 1, Len(front))

----------------------------------------------------------------------------
(* findDuplicates as a state machine.                                      *)

NoScore == [value |-> NaN, metrics |-> {"none"}]

NoCall == [fn |-> "none"]

\* no earlier call of findDuplicates, no output of analyze; and a value
None == [some |-> FALSE]

Some(value) == [some |-> TRUE, value |-> value]

Locals ==
    /\ typeIdx = 0
    /\ groups = <<>>
    /\ processed = {}
    /\ remaining = <<>>
    /\ i = 0
    /\ optGroups = <<>>
    /\ optProcessed = {}
    /\ scored = {}
    /\ result = <<>>
    /\ lastScore = NoScore
    /\ lastCall = NoCall
    /\ firstResult = None
    /\ reported = None

Init ==
    /\ \E n \in 0..MaxSnippets : snippets \in [1..n -> Universe]
    /\ minSimilarity \in MinSims
    /\ fastMode \in BOOLEAN
    /\ pc = "start"
    /\ Locals

\* lines 14-27
Begin ==
    /\ pc = "start"
    /\ IF Len(snippets) = 0
       THEN /\ pc' = "done"
            /\ typeIdx' = typeIdx
       ELSE /\ pc' = "type"
            /\ typeIdx' = 1
    /\ UNCHANGED <<lastCall, firstResult, reported>>
    /\ UNCHANGED <<snippets, minSimilarity, fastMode, groups, processed, remaining, i,
                   optGroups, optProcessed, scored, result, lastScore>>

\* lines 36-42 with `hashSnippets.length > 2` in the place of `> 1`
hashBucketGroupsOfThree(typeSnippets) ==
    LET buckets == groupByHash(typeSnippets)
        IsGroup(b) == Len(b) > 2
        big     == SelectSeq(buckets, IsGroup)
    IN  [bk \in 1..Len(big) |-> createDuplicateGroup(big[bk], One)]

\* lines 36-42 with `hashSnippets.length > 0`: a bucket of one snippet
\* becomes a group
hashBucketGroupsOfOne(typeSnippets) ==
    LET buckets == groupByHash(typeSnippets)
        IsGroup(b) == Len(b) > 0
        big     == SelectSeq(buckets, IsGroup)
    IN  [bk \in 1..Len(big) |-> createDuplicateGroup(big[bk], One)]

\* the groups made of the hash buckets with more than one snippet (lines 36-42)
hashBucketGroups(typeSnippets) ==
    LET buckets == groupByHash(typeSnippets)
        IsGroup(b) == Len(b) > 1
        big     == SelectSeq(buckets, IsGroup)
    IN  [bk \in 1..Len(big) |-> createDuplicateGroup(big[bk], One)]

\* the union of the ids of the members of a sequence of groups
GroupIds(gs) == UNION {IdsOf(gs[gk].snippets) : gk \in 1..Len(gs)}

\* one turn of the loop over the types, up to the call of
\* findSimilarSnippetsOptimized (lines 30-46)
HashPhase ==
    /\ pc = "type"
    /\ typeIdx <= Len(snippetsByType)
    /\ LET typeSnippets == snippetsByType[typeIdx]
       IN  IF Len(typeSnippets) < 2
           THEN /\ typeIdx' = typeIdx + 1
                /\ UNCHANGED <<pc, groups, processed, remaining, i>>
           ELSE LET hashGroups == hashBucketGroups(typeSnippets)
                    nowProcessed == processed \cup GroupIds(hashGroups)
                    Unprocessed(p) == snippets[p].id \notin nowProcessed
                    remainingSnippets == SelectSeq(typeSnippets, Unprocessed)
                IN  /\ groups' = groups \o hashGroups
                    /\ processed' = nowProcessed
                    /\ IF Len(remainingSnippets) > 1
                       THEN /\ pc' = "cluster"
                            /\ remaining' = remainingSnippets
                            /\ i' = 1
                            /\ typeIdx' = typeIdx
                       ELSE /\ typeIdx' = typeIdx + 1
                            /\ UNCHANGED <<pc, remaining, i>>
    /\ UNCHANGED <<lastCall, firstResult, reported>>
    /\ UNCHANGED <<snippets, minSimilarity, fastMode, optGroups, optProcessed, scored,
                   result, lastScore>>

\* lines 329-336 with line 335 left out: the members are not marked
keepGroupUnmarked(group, unique) ==
    IF Len(unique) > 1
    THEN /\ optGroups' = Append(optGroups, [group EXCEPT !.snippets = unique])
         /\ optProcessed' = optProcessed
    ELSE UNCHANGED <<optGroups, optProcessed>>

\* lines 329-336: the group is kept when more than one distinct id is left
keepGroup(group, unique) ==
    IF Len(unique) > 1
    THEN /\ optGroups' = Append(optGroups, [group EXCEPT !.snippets = unique])
         /\ optProcessed' = optProcessed \cup IdsOf(unique)
    ELSE UNCHANGED <<optGroups, optProcessed>>

\* lines 323-337
handleGroup(r) ==
    IF r.found /\ Len(r.group.snippets) > 1
    THEN keepGroup(r.group, uniqueSnippets(r.group.snippets))
    ELSE UNCHANGED <<optGroups, optProcessed>>

\* line 322 and what follows it, with the calls logged
anchorAt(calls) ==
    /\ scored' = scored \cup {[anchor |-> c.anchor, candidate |-> c.candidate,
                                value |-> c.value] : c \in calls}
    /\ handleGroup(findSimilarSnippets(remaining, i, calls))

\* line 320 left out: no anchor is passed over
neverProcessed(snippet) == FALSE

\* the test of line 320
alreadyProcessed(snippet) == snippet.id \in optProcessed

\* one turn of the loop of findSimilarSnippetsOptimized (lines 319-338)
AnchorStep ==
    /\ pc = "cluster"
    /\ i <= Len(remaining)
    /\ i' = i + 1
    /\ IF alreadyProcessed(snippets[remaining[i]])
       THEN UNCHANGED <<optGroups, optProcessed, scored>>
       ELSE anchorAt(callsOf(remaining, i))
    /\ UNCHANGED <<lastCall, firstResult, reported>>
    /\ UNCHANGED <<snippets, minSimilarity, fastMode, pc, typeIdx, groups, processed,
                   remaining, result, lastScore>>

\* the return of findSimilarSnippetsOptimized and lines 48-51
Collect ==
    /\ pc = "cluster"
    /\ i > Len(remaining)
    /\ groups' = groups \o optGroups
    /\ processed' = processed \cup GroupIds(optGroups)
    /\ typeIdx' = typeIdx + 1
    /\ pc' = "type"
    /\ remaining' = <<>>
    /\ i' = 0
    /\ optGroups' = <<>>
    /\ optProcessed' = {}
    /\ UNCHANGED <<lastCall, firstResult, reported>>
    /\ UNCHANGED <<snippets, minSimilarity, fastMode, scored, result, lastScore>>

\* line 55 with the in-place sort turned on the argument: its order changes
argumentReordered(list) == [k \in 1..Len(list) |-> list[Len(list) + 1 - k]]

\* the argument after line 55: Array.prototype.sort works in place, on the
\* local array `groups`; the argument is another array and is not written
argumentAfterSort(list) == list

\* line 55
SortAndReturn ==
    /\ pc = "type"
    /\ typeIdx > Len(snippetsByType)
    /\ result' = sortByReuseScore(groups)
    /\ snippets' = argumentAfterSort(snippets)
    /\ pc' = "done"
    /\ UNCHANGED <<lastCall, firstResult, reported>>
    /\ UNCHANGED <<minSimilarity, fastMode, typeIdx, groups, processed, remaining,
                   i, optGroups, optProcessed, scored, lastScore>>

Next == Begin \/ HashPhase \/ AnchorStep \/ Collect \/ SortAndReturn

Spec == Init /\ [][Next]_vars

----------------------------------------------------------------------------
(* calculateSimilarity on a pair, followed by findDuplicates on the list   *)
(* made of the pair.  The pairs are drawn from the texts above and from    *)
(* texts that are empty, shorter than kGramSize tokens or of very          *)
(* different lengths, from a pair with the metric values of the            *)
(* documented scenario (fingerprint 0.92, shingle 0.90, edit distance      *)
(* 0.88) and from snippets whose fingerprint is the empty string.          *)

ContentP ==
    [normalizedContent |-> W(<<"h", "g", "f", "e", "d", "c", "b", "a">>),
     hash |-> "-6uvoho", simHash |-> <<"m", "c">>, size |-> 120]

ContentK ==
    [normalizedContent |-> W(<<"a", "b", "c", "d", "e", "f", "g", "k">>),
     hash |-> "-ncmf95", simHash |-> <<"m", "f">>, size |-> 120]

ContentEmpty ==
    [normalizedContent |-> <<>>, hash |-> "0", simHash |-> <<"0">>, size |-> 0]

ContentAB ==
    [normalizedContent |-> W(<<"a", "b">>), hash |-> "20rn", simHash |-> <<"5", "f">>,
     size |-> 12]

ContentAC ==
    [normalizedContent |-> W(<<"a", "c">>), hash |-> "20ro", simHash |-> <<"5", "g">>,
     size |-> 12]

ScenarioTokens ==
    <<<<"a", "b">>, <<"b", "c">>, <<"c", "d">>, <<"d", "e">>, <<"e", "f">>,
      <<"f", "g">>, <<"g", "h">>, <<"h", "i">>, <<"i", "j">>, <<"j", "k">>,
      <<"k", "l">>, <<"l", "m">>, <<"m", "n">>, <<"n", "o">>, <<"o", "p">>,
      <<"z", "z", "z", "z", "z">>>>

ScenarioB1 ==
    [normalizedContent |-> Join(ScenarioTokens),
     hash |-> "-xsfmo5",
     simHash |-> <<"a", "a", "a", "a", "a", "a", "a", "a", "a", "a", "a", "a", "a", "a", "a", "a", "a", "a", "a", "a", "a", "a", "a", "a", "a">>,
     size |-> 200]

ScenarioB2 ==
    [normalizedContent |-> Join(SubSeq(ScenarioTokens, 1, Len(ScenarioTokens) - 1)),
     hash |-> "-hk2qan",
     simHash |-> <<"a", "a", "a", "a", "a", "a", "a", "a", "a", "a", "a", "a", "a", "a", "a", "a", "a", "a", "a", "a", "a", "a", "a", "b", "b">>,
     size |-> 180]

NoFingerprint1 ==
    [normalizedContent |-> ContentA.normalizedContent, hash |-> "-ncmf98", simHash |-> <<>>,
     size |-> 120]

NoFingerprint2 ==
    [normalizedContent |-> ContentB.normalizedContent, hash |-> "-ncmf97", simHash |-> <<>>,
     size |-> 100]

ScoreContents ==
    {ContentA, ContentB, ContentC, ContentP, ContentK, ContentEmpty, ContentAB, ContentAC,
     ScenarioB1, ScenarioB2, NoFingerprint1, NoFingerprint2}

DefaultMinSimilarity == R(8, 10)

ScoreInit ==
    /\ \E c1 \in ScoreContents, c2 \in ScoreContents :
          snippets = <<Snippet("function", c1, Location("f1", 1, 8)),
                       Snippet("function", c2, Location("f2", 1, 8))>>
    /\ minSimilarity = DefaultMinSimilarity
    /\ fastMode \in BOOLEAN
    /\ pc = "pair"
    /\ Locals

\* a call of calculateSimilarity on the pair
ScorePair ==
    /\ pc = "pair"
    /\ lastScore' = calculateSimilarityTrace(snippets[1], snippets[2])
    /\ pc' = "start"
    /\ UNCHANGED <<lastCall, firstResult, reported>>
    /\ UNCHANGED <<snippets, minSimilarity, fastMode, typeIdx, groups, processed, remaining,
                   i, optGroups, optProcessed, scored, result>>

ScoreNext == ScorePair \/ Begin \/ HashPhase \/ AnchorStep \/ Collect \/ SortAndReturn

SpecScore == ScoreInit /\ [][ScoreNext]_vars

----------------------------------------------------------------------------
(* A second call of findDuplicates on the same detector with the same      *)
(* list, after the first has returned.                                     *)

\* the variant in which `processed` outlives the call, as a field of the
\* detector would
leftProcessed == processed

\* line 27: const processed = new Set<string>()
newProcessed == {}

\* the first call has returned; findDuplicates is entered again (lines 14-27
\* create its locals anew)
Again ==
    /\ pc = "done"
    /\ firstResult = None
    /\ firstResult' = Some(result)
    /\ pc' = "start"
    /\ typeIdx' = 0
    /\ groups' = <<>>
    /\ processed' = newProcessed
    /\ remaining' = <<>>
    /\ i' = 0
    /\ optGroups' = <<>>
    /\ optProcessed' = {}
    /\ scored' = {}
    /\ result' = <<>>
    /\ UNCHANGED <<snippets, minSimilarity, fastMode, lastScore, lastCall, reported>>

TwiceNext == Next \/ Again

SpecTwice == Init /\ [][TwiceNext]_vars

----------------------------------------------------------------------------
(* The analyze operation of the command line: findDuplicates on the        *)
(* snippets of the chosen scope, then the duplicates handed to the output. *)
(* The whole-project mode goes through ReuseAnalyzer.analyzeProject; the   *)
(* --file and --directory modes call findDuplicates themselves.  Only the  *)
(* --file mode passes fastMode to the detector.                            *)

MaxResults == 2

\* Array.prototype.slice(0, count) for count >= 0
slice(s, count) == SubSeq(s, 1, Min2(count, Len(s)))

\* what an analyze action leaves unchanged
AnalyzeFrame ==
    /\ pc = "done"
    /\ pc' = "reported"
    /\ UNCHANGED <<snippets, minSimilarity, fastMode, typeIdx, groups, processed, remaining,
                   i, optGroups, optProcessed, scored, result, lastScore, lastCall,
                   firstResult>>

\* ReuseAnalyzer.analyzeProject, from the return of findDuplicates on
AnalyzeProject ==
    /\ AnalyzeFrame
    /\ ~fastMode
    /\ \E maxResults \in 0..MaxResults :
           reported' = Some([mode       |-> "project",
                             maxResults |-> maxResults,
                             duplicates |-> slice(result, maxResults)])

\* the --file branch of the analyze command, from the return of
\* findDuplicates on
AnalyzeFile ==
    /\ AnalyzeFrame
    /\ \A p \in 1..Len(snippets) : snippets[p].filePath = snippets[1].filePath
    /\ \E maxResults \in 0..MaxResults :
           reported' = Some([mode       |-> "file",
                             maxResults |-> maxResults,
                             duplicates |-> result])

\* the --directory branch of the analyze command, from the return of
\* findDuplicates on
AnalyzeDirectory ==
    /\ AnalyzeFrame
    /\ ~fastMode
    /\ \E maxResults \in 0..MaxResults :
           reported' = Some([mode       |-> "directory",
                             maxResults |-> maxResults,
                             duplicates |-> result])

AnalyzeNext == Next \/ AnalyzeProject \/ AnalyzeFile \/ AnalyzeDirectory

SpecAnalyze == Init /\ [][AnalyzeNext]_vars

----------------------------------------------------------------------------
(* Direct calls of calculateSimHashSimilarity, calculateShingleSimilarity  *)
(* and generateSuggestion.  The first two are called on the first two      *)
(* snippets of a list of three, generateSuggestion on a member list made   *)
(* of the first two or of all three, with a similarity drawn from values   *)
(* on both sides of its thresholds and on them.                            *)

SnippetTypes ==
    {"function", "component", "hook", "stylesheet", "utility", "animation", "navigation",
     "api_client"}

Similarities ==
    {Zero, R(1, 2), R(85, 100), R(86, 100), R(9, 10), R(95, 100), R(96, 100), One}

CallsInit ==
    /\ \E t \in SnippetTypes, t3 \in {"function", "component"},
          c1 \in ScoreContents, c2 \in ScoreContents :
          snippets = <<Snippet(t, c1, Location("f1", 1, 8)),
                       Snippet(t, c2, Location("f2", 1, 8)),
                       Snippet(t3, ContentC, Location("f1", 10, 17))>>
    /\ minSimilarity = DefaultMinSimilarity
    /\ fastMode = FALSE
    /\ pc = "call"
    /\ Locals

\* what a call leaves unchanged
CallFrame ==
    /\ pc = "call"
    /\ pc' = "called"
    /\ UNCHANGED <<snippets, minSimilarity, fastMode, typeIdx, groups, processed, remaining,
                   i, optGroups, optProcessed, scored, result, lastScore, firstResult,
                   reported>>

CallSimHash ==
    /\ CallFrame
    /\ lastCall' = [fn    |-> "calculateSimHashSimilarity",
                    value |-> calculateSimHashSimilarity(snippets[1].simHash,
                                                         snippets[2].simHash)]

CallShingle ==
    /\ CallFrame
    /\ lastCall' = [fn    |-> "calculateShingleSimilarity",
                    trace |-> calculateShingleSimilarityTrace(snippets[1].normalizedContent,
                                                              snippets[2].normalizedContent)]

CallSuggestion ==
    /\ CallFrame
    /\ \E members \in {<<1, 2>>, <<1, 2, 3>>}, similarity \in Similarities :
           lastCall' = [fn         |-> "generateSuggestion",
                        members    |-> members,
                        similarity |-> similarity,
                        value      |-> generateSuggestion(members, similarity)]

CallsNext == CallSimHash \/ CallShingle \/ CallSuggestion

SpecCalls == CallsInit /\ [][CallsNext]_vars

----------------------------------------------------------------------------
(* findDuplicates on lists that may name a snippet more than once: the     *)
(* lists of at most MaxRepeats snippets over four of the snippets above,   *)
(* three functions that anchor clustering compares and a component at the  *)
(* location of one of them.                                                *)

MaxRepeats == 4

RepeatOccurrences ==
    {<<"function", ContentA, Location("f1", 1, 8)>>,
     <<"function", ContentB, Location("f2", 1, 8)>>,
     <<"function", ContentC, Location("f1", 10, 17)>>,
     <<"component", ContentA, Location("f1", 1, 8)>>}

RepeatUniverse == {Snippet(o[1], o[2], o[3]) : o \in RepeatOccurrences}

RepeatsInit ==
    /\ snippets \in UNION {[1..n -> RepeatUniverse] : n \in 1..MaxRepeats}
    /\ minSimilarity = R(1, 2)
    /\ fastMode \in BOOLEAN
    /\ pc = "start"
    /\ Locals

SpecRepeats == RepeatsInit /\ [][Next]_vars

----------------------------------------------------------------------------
(* Direct calls of the functions that take a text, generateShingles of the *)
(* detector and generateHash and generateSimHash of the parser: on token   *)
(* lists short and long enough to pass the cap of maxShingles windows,     *)
(* with tokens that repeat or not and with one or two blanks between them, *)
(* and on texts that declare a function.                                   *)

ShortTokens == 12

\* the numbers of tokens for which the windows number maxShingles - 3 to
\* maxShingles + 3
LongTokens == (maxShingles + kGramSize - 4)..(maxShingles + kGramSize + 2)

Letters == <<"a", "b", "c", "d", "e", "f", "g", "h", "i", "j", "k">>

\* the j-th of 121 two-letter tokens
TokenAt(j) == <<Letters[(j \div 11) + 1], Letters[(j % 11) + 1]>>

AllDistinct == 121

\* the text of n tokens, the w-th being TokenAt((w - 1) % period); `wide`
\* puts a blank before the first token and two blanks between tokens
RECURSIVE TokenTextFrom(_, _, _, _)
TokenTextFrom(w, n, period, wide) ==
    IF w > n THEN <<>>
    ELSE IF w = n
    THEN (IF wide THEN <<" ">> ELSE <<>>)
         \o (IF w > 1 THEN <<" ">> ELSE <<>>)
         \o TokenAt((w - 1) % period)
    ELSE TokenTextFrom(w, (w + n) \div 2, period, wide)
         \o TokenTextFrom(((w + n) \div 2) + 1, n, period, wide)

TokenText(n, period, wide) == TokenTextFrom(1, n, period, wide)

TokenTexts ==
    {TokenText(n, period, wide) :
        n \in (0..ShortTokens) \cup LongTokens, period \in {1, 3, AllDistinct}, wide \in BOOLEAN}

Prefixes == {<<>>, <<"k", " ">>}

\* the headers that lines 368 and 369 remove, and none
Headers ==
    {<<>>,
     <<"e", "x", "p", "o", "r", "t", " ", "c", "o", "n", "s", "t", " ", "f", " ", "=", " ", "(", "a", ")", " ", "=", ">", " ">>,
     <<"e", "x", "p", "o", "r", "t", " ", "c", "o", "n", "s", "t", " ", "g", "g", "=", "(", "b", ",", " ", "c", ")", "=", ">">>,
     <<"e", "x", "p", "o", "r", "t", " ", "f", "u", "n", "c", "t", "i", "o", "n", " ", "f", "(", "a", ")", " ">>,
     <<"e", "x", "p", "o", "r", "t", " ", "f", "u", "n", "c", "t", "i", "o", "n", " ", "g", "g", " ", "(", "b", ",", " ", "c", ")">>}

Bodies == {<<"a", " ", "+", " ", "1">>, <<"{", " ", "a", ";", " ", "}">>, <<"a">>}

Closings == {<<>>, <<";">>}

\* texts that declare a function: what comes before the declaration, its
\* header, its body and a closing semicolon or none
DeclarationTexts ==
    {p \o h \o b \o c : p \in Prefixes, h \in Headers, b \in Bodies, c \in Closings}

Texts == TokenTexts \cup DeclarationTexts

TextInit ==
    /\ snippets = <<>>
    /\ minSimilarity = DefaultMinSimilarity
    /\ fastMode = FALSE
    /\ pc = "text"
    /\ typeIdx = 0
    /\ groups = <<>>
    /\ processed = {}
    /\ remaining = <<>>
    /\ i = 0
    /\ optGroups = <<>>
    /\ optProcessed = {}
    /\ scored = {}
    /\ result = <<>>
    /\ lastScore = NoScore
    /\ \E content \in Texts : lastCall = [fn |-> "none", content |-> content]
    /\ firstResult = None
    /\ reported = None

\* what a call on the text leaves unchanged
TextFrame ==
    /\ pc = "text"
    /\ pc' = "called"
    /\ UNCHANGED <<snippets, minSimilarity, fastMode, typeIdx, groups, processed, remaining,
                   i, optGroups, optProcessed, scored, result, lastScore, firstResult,
                   reported>>

CallGenerateShingles ==
    /\ TextFrame
    /\ lastCall' = [fn      |-> "generateShingles",
                    content |-> lastCall.content,
                    value   |-> generateShingles(lastCall.content),
                    count   |-> generateShinglesTrace(lastCall.content).count]

CallGenerateHash ==
    /\ TextFrame
    /\ lastCall' = [fn      |-> "generateHash",
                    content |-> lastCall.content,
                    value   |-> generateHash(lastCall.content)]

CallGenerateSimHash ==
    /\ TextFrame
    /\ lastCall' = [fn      |-> "generateSimHash",
                    content |-> lastCall.content,
                    value   |-> generateSimHash(lastCall.content)]

TextNext == CallGenerateShingles \/ CallGenerateHash \/ CallGenerateSimHash

SpecText == TextInit /\ [][TextNext]_vars

----------------------------------------------------------------------------
(* findDuplicates on a list, and then on the snippets of each of its       *)
(* categories alone, the categories taken in any order.  `reported` keeps  *)
(* the list, the groups of the first call and the groups of the calls on   *)
(* the categories, each group with its members themselves.                 *)

\* the groups of a result as values: members, similarity and reuseScore
resolved(gs) ==
    {[members    |-> [k \in 1..Len(gs[gk].snippets) |-> snippets[gs[gk].snippets[k]]],
      similarity |-> gs[gk].similarity,
      reuseScore |-> gs[gk].reuseScore] : gk \in 1..Len(gs)}

typesOf(list) == {list[p].type : p \in 1..Len(list)}

ofCategory(list, type) ==
    LET OfType(s) == s.type = type IN SelectSeq(list, OfType)

CategoriesInit ==
    /\ \E n \in 0..MaxSnippets : snippets \in [1..n -> Universe]
    /\ minSimilarity \in {Zero, R(1, 2)}
    /\ fastMode \in BOOLEAN
    /\ pc = "start"
    /\ Locals

\* findDuplicates is entered on the snippets of category `type`
runAlone(type, rep) ==
    /\ snippets' = ofCategory(rep.input, type)
    /\ reported' = Some([rep EXCEPT !.current = type])
    /\ pc' = "start"
    /\ typeIdx' = 0
    /\ groups' = <<>>
    /\ processed' = {}
    /\ remaining' = <<>>
    /\ i' = 0
    /\ optGroups' = <<>>
    /\ optProcessed' = {}
    /\ scored' = {}
    /\ result' = <<>>
    /\ UNCHANGED <<minSimilarity, fastMode, lastScore, lastCall, firstResult>>

\* the call on the whole list has returned
FirstAlone ==
    /\ pc = "done"
    /\ reported = None
    /\ Len(snippets) > 0
    /\ \E type \in typesOf(snippets) :
           runAlone(type, [input |-> snippets, whole |-> resolved(result), alone |-> {},
                           left |-> typesOf(snippets), current |-> type])

\* a call on one category has returned
NextAlone ==
    /\ pc = "done"
    /\ reported.some
    /\ LET rep  == reported.value
           kept == [rep EXCEPT !.alone = rep.alone \cup resolved(result),
                               !.left = rep.left \ {rep.current}]
       IN  IF kept.left = {}
           THEN /\ snippets' = rep.input
                /\ reported' = Some(kept)
                /\ pc' = "compared"
                /\ UNCHANGED <<minSimilarity, fastMode, typeIdx, groups, processed, remaining,
                               i, optGroups, optProcessed, scored, result, lastScore,
                               lastCall, firstResult>>
           ELSE \E type \in kept.left : runAlone(type, kept)

CategoriesNext == Next \/ FirstAlone \/ NextAlone

SpecCategories == CategoriesInit /\ [][CategoriesNext]_vars

----------------------------------------------------------------------------
(* Properties of findDuplicates, checked under Spec.                       *)

DistinctIds ==
    \A p, q \in 1..Len(snippets) : p # q => snippets[p].id # snippets[q].id

Returned == {result[g] : g \in 1..Len(result)}

\* C1: after findDuplicates on a list of snippets with pairwise distinct
\* ids, no id occurs in the member lists of two different returned groups.
C1_NoIdInTwoGroups ==
    (pc = "done" /\ DistinctIds) =>
        \A g, h \in 1..Len(result) :
            g # h => IdsOf(result[g].snippets) \cap IdsOf(result[h].snippets) = {}

\* C2: two snippets of the list with the same type and the same hash score
\* exactly 1.0 with no metric computed, and findDuplicates returns one group
\* that holds both, whatever minSimilarity is and whatever their locations.
C2_EqualHashOneGroup ==
    \A p, q \in 1..Len(snippets) :
        (p < q /\ snippets[p].type = snippets[q].type /\ snippets[p].hash = snippets[q].hash) =>
            /\ calculateSimilarityTrace(snippets[p], snippets[q]) = [value |-> One, metrics |-> {}]
            /\ pc = "done" =>
                   Cardinality({g \in 1..Len(result) : {p, q} \subseteq Range(result[g].snippets)}) = 1

C2_Witness ==
    /\ pc = "done"
    /\ \E p, q \in 1..Len(snippets) :
           /\ p < q
           /\ snippets[p].type = snippets[q].type
           /\ snippets[p].hash = snippets[q].hash
           /\ snippets[p].id # snippets[q].id
           /\ skipped(snippets[p], snippets[q])
           /\ \E g \in 1..Len(result) : result[g].snippets = <<p, q>>

\* C3: the members of every group, returned or under construction, share one
\* type, and no call of calculateSimilarity is made on snippets of two types.
C3_OneTypePerGroup ==
    /\ \A g \in Range(groups) \cup Range(optGroups) \cup Returned :
           \A m, n \in Range(g.snippets) : snippets[m].type = snippets[n].type
    /\ \A c \in scored : snippets[c.anchor].type = snippets[c.candidate].type

C3_Witness ==
    /\ pc = "done"
    /\ \E p, q \in 1..Len(snippets) :
           /\ snippets[p].type # snippets[q].type
           /\ snippets[p].hash = snippets[q].hash
    /\ Len(result) >= 1
    /\ scored # {}

\* C4: a candidate that reached calculateSimilarity (it passed the exclusion
\* rules) and scored exactly minSimilarity against the anchor is in the
\* anchor's group: its id is among the members' ids, and so is the candidate
\* itself when no other snippet of the list has its id.
C4_BoundaryJoins ==
    \A c \in scored :
        c.value = minSimilarity =>
            \E g \in Range(groups) \cup Range(optGroups) :
                /\ g.snippets[1] = c.anchor
                /\ snippets[c.candidate].id \in IdsOf(g.snippets)
                /\ (\A p \in 1..Len(snippets) :
                        snippets[p].id = snippets[c.candidate].id => p = c.candidate)
                   => c.candidate \in Range(g.snippets)

C4_Witness ==
    /\ pc = "done"
    /\ \E c \in scored :
           /\ c.value = minSimilarity
           /\ RLt(c.value, One)
           /\ \E g \in Returned : g.snippets = <<c.anchor, c.candidate>>

\* the case of C5: three snippets A, B, C of one type, in that order, with
\* no equal hashes and no exclusion rule applying, A-B and B-C at or above
\* minSimilarity and A-C below it
AnchorRelativeCase ==
    /\ Len(snippets) = 3
    /\ \A p, q \in 1..3 :
           p # q => /\ snippets[p].hash # snippets[q].hash
                    /\ ~skipped(snippets[p], snippets[q])
    /\ RGe(calculateSimilarity(snippets[1], snippets[2]), minSimilarity)
    /\ RGe(calculateSimilarity(snippets[2], snippets[3]), minSimilarity)
    /\ RLt(calculateSimilarity(snippets[1], snippets[3]), minSimilarity)

\* C5: in that case findDuplicates returns exactly one group, {A, B} with
\* anchor A; C is scored against A only, never against B, and is in no group.
C5_AnchorRelative ==
    (pc = "done" /\ AnchorRelativeCase) =>
        /\ Len(result) = 1
        /\ result[1].snippets = <<1, 2>>
        /\ result[1].id = <<"group", snippets[1].id>>
        /\ {<<c.anchor, c.candidate>> : c \in scored} = {<<1, 2>>, <<1, 3>>}

C5_Witness ==
    /\ pc = "done"
    /\ AnchorRelativeCase
    /\ Len(result) = 1

\* the sum of the sizes and the mean of the churn weights of a member list
sizeSum(members) == RSum([m \in 1..Len(members) |-> R(snippets[members[m]].size, 1)])

churnMean(members) ==
    RDiv(RSum([m \in 1..Len(members) |-> snippets[members[m]].churnWeight]),
         R(Len(members), 1))

\* C9: the reuseScore of every returned group is (sum of the sizes of its
\* returned members) * (its similarity) * (number of returned members) *
\* (mean churnWeight of the returned members).
C9_ReuseScoreOfReturnedMembers ==
    \A g \in Returned :
        g.reuseScore =
            RMul(RMul(RMul(sizeSum(g.snippets), g.similarity), R(Len(g.snippets), 1)),
                 churnMean(g.snippets))

\* C10: every returned group has minSimilarity <= similarity <= 1.0 and
\* reuseScore >= 0.
C10_SimilarityAndReuseScoreRange ==
    \A g \in Returned :
        /\ RLe(minSimilarity, g.similarity)
        /\ RLe(g.similarity, One)
        /\ RGe(g.reuseScore, Zero)

C10_Witness ==
    /\ pc = "done"
    /\ \E g \in Returned :
           /\ RLt(minSimilarity, g.similarity)
           /\ RLt(g.similarity, One)
           /\ RGt(g.reuseScore, Zero)

----------------------------------------------------------------------------
(* Properties of calculateSimilarity, checked under SpecScore.             *)

\* the metrics of a pair, each as its own function computes it
hashEq(a, b) == IF a.hash = b.hash THEN One ELSE Zero

fingerprintSim(a, b) == calculateSimHashSimilarity(a.simHash, b.simHash)

shingleSim(a, b) == calculateShingleSimilarity(a.normalizedContent, b.normalizedContent)

editDistanceSim(a, b) == calculateEditDistanceSimilarity(a.normalizedContent, b.normalizedContent)

\* 0.4*hashEq + 0.3*fingerprintSim + 0.2*shingleSim + 0.1*editDistanceSim
documentedWeightedSum(a, b) ==
    RAdd(RAdd(RAdd(RMul(R(4, 10), hashEq(a, b)), RMul(R(3, 10), fingerprintSim(a, b))),
              RMul(R(2, 10), shingleSim(a, b))),
         RMul(R(1, 10), editDistanceSim(a, b)))

\* the cascade: 1.0 on equal hashes; else the fingerprint similarity f if
\* f > 0.9 or f < 0.5; else (f + s)/2 if the shingle similarity s < 0.3;
\* else 0.5*f + 0.3*s + 0.2*e.  A metric that is 0/0 is NaN: it fails each
\* comparison and makes the result NaN.
cascadeFromShingle(a, b, f, s) ==
    IF RLt(s, R(3, 10))
    THEN RDiv(RAdd(f, s), R(2, 1))
    ELSE RAdd(RAdd(RMul(R(5, 10), f), RMul(R(3, 10), s)), RMul(R(2, 10), editDistanceSim(a, b)))

cascadeFromFingerprint(a, b, f) ==
    IF RGt(f, R(9, 10)) \/ RLt(f, R(1, 2)) THEN f ELSE cascadeFromShingle(a, b, f, shingleSim(a, b))

cascade(a, b) ==
    IF a.hash = b.hash THEN One ELSE cascadeFromFingerprint(a, b, fingerprintSim(a, b))

\* the pair of the documented scenario: no hash match, fingerprint 0.92,
\* shingle 0.90, edit distance 0.88
ScenarioPair ==
    /\ snippets = <<Snippet("function", ScenarioB1, Location("f1", 1, 8)),
                    Snippet("function", ScenarioB2, Location("f2", 1, 8))>>
    /\ hashEq(snippets[1], snippets[2]) = Zero
    /\ fingerprintSim(snippets[1], snippets[2]) = R(92, 100)
    /\ shingleSim(snippets[1], snippets[2]) = R(90, 100)
    /\ editDistanceSim(snippets[1], snippets[2]) = R(88, 100)

\* C6 as stated: in full mode the score is the weighted sum 0.4*hashEq +
\* 0.3*fingerprintSim + 0.2*shingleSim + 0.1*editDistanceSim, so that the
\* scenario pair scores 0.544 and is not grouped at minSimilarity 0.8.
C6_FullModeWeightedSum ==
    (lastScore # NoScore /\ ~fastMode) =>
        /\ lastScore.value = documentedWeightedSum(snippets[1], snippets[2])
        /\ ScenarioPair => /\ lastScore.value = R(544, 1000)
                           /\ result = <<>>

\* C6, amended: in full mode the score is the cascade, so that the scenario
\* pair scores 0.92 (its fingerprint similarity, above 0.9) and is grouped at
\* minSimilarity 0.8.
C6_FullModeCascade ==
    (lastScore # NoScore /\ ~fastMode) =>
        /\ lastScore.value = cascade(snippets[1], snippets[2])
        /\ ScenarioPair =>
               /\ lastScore.value = R(92, 100)
               /\ pc = "done" => /\ Len(result) = 1
                                 /\ result[1].snippets = <<1, 2>>

C6_Witness ==
    /\ pc = "done"
    /\ ~fastMode
    /\ minSimilarity = R(8, 10)
    /\ ScenarioPair
    /\ lastScore = [value |-> R(92, 100), metrics |-> {"simHash"}]
    /\ Len(result) = 1

\* C7 as stated: in fast mode the score is the cascade.
C7_FastModeCascade ==
    (lastScore # NoScore /\ fastMode) => lastScore.value = cascade(snippets[1], snippets[2])

\* C7, amended: in fast mode the score is 1.0 on equal hashes and the
\* fingerprint similarity itself otherwise; no other metric is computed.
C7_FastModeFingerprintOnly ==
    (lastScore # NoScore /\ fastMode) =>
        lastScore = IF snippets[1].hash = snippets[2].hash
                    THEN [value |-> One, metrics |-> {}]
                    ELSE [value   |-> fingerprintSim(snippets[1], snippets[2]),
                          metrics |-> {"simHash"}]

C7_Witness ==
    /\ fastMode
    /\ lastScore # NoScore
    /\ snippets[1].hash # snippets[2].hash
    /\ RGe(fingerprintSim(snippets[1], snippets[2]), R(1, 2))
    /\ RLe(fingerprintSim(snippets[1], snippets[2]), R(9, 10))
    /\ RGe(shingleSim(snippets[1], snippets[2]), R(3, 10))
    /\ lastScore.value = fingerprintSim(snippets[1], snippets[2])
    /\ lastScore.value # cascade(snippets[1], snippets[2])

\* C8: in both modes calculateSimilarity returns a defined number of [0, 1],
\* whatever the lengths of the two texts and of the two fingerprints.
C8_ScoreInUnitInterval ==
    lastScore # NoScore =>
        /\ ~IsNaN(lastScore.value)
        /\ RGe(lastScore.value, Zero)
        /\ RLe(lastScore.value, One)

----------------------------------------------------------------------------
(* Further properties of findDuplicates, checked under Spec.               *)

\* a returned group made of a hash bucket: its members share one hash (the
\* members of an anchor-clustered group have pairwise different hashes)
isHashBucketGroup(g) ==
    \A m \in Range(g.snippets) : snippets[m].hash = snippets[g.snippets[1]].hash

\* (1.0 + the sum of the scores of the non-anchor members against the
\* anchor) / (number of members)
anchorRelativeMean(members) ==
    RDiv(RAdd(One, RSum([k \in 1..(Len(members) - 1) |->
                            calculateSimilarity(snippets[members[1]], snippets[members[k + 1]])])),
         R(Len(members), 1))

\* C11: the similarity of a returned hash-bucket group is exactly 1.0, and
\* the similarity of a returned anchor-clustered group is the anchor-relative
\* mean over its returned members.
C11_AnchorRelativeMean ==
    \A g \in Returned :
        g.similarity = IF isHashBucketGroup(g) THEN One ELSE anchorRelativeMean(g.snippets)

----------------------------------------------------------------------------
(* Properties of the directly called functions, checked under SpecCalls.   *)

\* the parts of a suggestion that the thresholds decide
kindOf(suggestion) == <<suggestion.type, suggestion.estimatedEffort>>

\* s > 0.95 gives extract/low, 0.85 < s <= 0.95 gives consolidate/medium and
\* s <= 0.85 gives parameterize/high
kindByThresholds(suggestion, s) ==
    /\ RGt(s, R(95, 100)) => kindOf(suggestion) = <<"extract", "low">>
    /\ (RGt(s, R(85, 100)) /\ RLe(s, R(95, 100))) => kindOf(suggestion) = <<"consolidate", "medium">>
    /\ RLe(s, R(85, 100)) => kindOf(suggestion) = <<"parameterize", "high">>

\* the member lists generateSuggestion could be called on whose first member
\* has the type of the first member of `members`
sameFirstType(members) ==
    {others \in {<<1, 2>>, <<1, 2, 3>>, <<2, 1>>, <<2, 1, 3>>} :
        snippets[others[1]].type = snippets[members[1]].type}

\* C12 as stated: the suggestion is decided by the similarity through the
\* thresholds, and it is the same for every group with that similarity whose
\* first member has that category.
C12_FunctionOfSimilarityAndCategory ==
    lastCall.fn = "generateSuggestion" =>
        /\ kindByThresholds(lastCall.value, lastCall.similarity)
        /\ \A others \in sameFirstType(lastCall.members) :
               generateSuggestion(others, lastCall.similarity) = lastCall.value

\* C12, amended: type and estimatedEffort are decided by the similarity
\* through the thresholds; targetModule, description and codeTemplate by the
\* similarity and the first member's category; the first of the benefits names
\* round((1 - 1/n) * 100) for the n members of the group.
C12_SuggestionParts ==
    lastCall.fn = "generateSuggestion" =>
        /\ kindByThresholds(lastCall.value, lastCall.similarity)
        /\ lastCall.value.targetModule = suggestTargetModule(snippets[lastCall.members[1]].type)
        /\ lastCall.value.benefits[1][2] = reductionPercent(Len(lastCall.members))
        /\ \A others \in sameFirstType(lastCall.members) :
               /\ [generateSuggestion(others, lastCall.similarity) EXCEPT !.benefits = <<>>]
                      = [lastCall.value EXCEPT !.benefits = <<>>]
               /\ Len(others) = Len(lastCall.members)
                      => generateSuggestion(others, lastCall.similarity) = lastCall.value

C12_Witness ==
    /\ lastCall.fn = "generateSuggestion"
    /\ lastCall.similarity = R(95, 100)
    /\ lastCall.members = <<1, 2, 3>>
    /\ kindOf(lastCall.value) = <<"consolidate", "medium">>
    /\ lastCall.value.benefits[1][2] = 67
    /\ snippets[1].type = "hook"
    /\ snippets[3].type = "component"
    /\ lastCall.value.targetModule = "shared/hooks"

----------------------------------------------------------------------------
(* Further properties of findDuplicates, checked under Spec (continued).   *)

\* C13: the returned list holds the groups that were formed, ordered by
\* non-increasing reuseScore.
C13_SortedByReuseScore ==
    pc = "done" =>
        /\ Len(result) = Len(groups)
        /\ Returned = Range(groups)
        /\ \A k \in 1..(Len(result) - 1) :
               RGe(result[k].reuseScore, result[k + 1].reuseScore)

C13_Witness ==
    /\ pc = "done"
    /\ Len(result) >= 2
    /\ result # groups
    /\ RGt(result[1].reuseScore, result[2].reuseScore)

----------------------------------------------------------------------------
(* Properties of two successive calls, checked under SpecTwice.            *)

\* C14: a second call of findDuplicates on the same list with the same
\* minSimilarity and fastMode returns what the first returned: the same
\* groups in the same order, with the same members, similarity, reuseScore
\* and suggestion.
C14_SecondRunSameResult ==
    (pc = "done" /\ firstResult.some) => result = firstResult.value

C14_Witness ==
    /\ pc = "done"
    /\ firstResult.some
    /\ result = firstResult.value
    /\ Len(result) = 2
    /\ \E g \in Returned : ~isHashBucketGroup(g)

----------------------------------------------------------------------------
(* Further properties of the directly called functions, checked under      *)
(* SpecCalls.                                                              *)

\* C15: the fingerprint similarity of two zero-length fingerprints is the
\* defined value 1.0.
C15_EmptyFingerprintsScoreOne ==
    (/\ lastCall.fn = "calculateSimHashSimilarity"
     /\ Len(snippets[1].simHash) = 0
     /\ Len(snippets[2].simHash) = 0)
        => lastCall.value = One

\* |len(a) - len(b)| / max(len(a), len(b))
lengthRatio(a, b) == RDiv(R(Abs(Len(a) - Len(b)), 1), R(Max2(Len(a), Len(b)), 1))

\* the Jaccard index of two sets: intersection / union (0/0 for two empty sets)
jaccard(S, T) == RDiv(R(Cardinality(S \cap T), 1), R(Cardinality(S \cup T), 1))

\* C16: when the length ratio of the two texts is above 0.7,
\* calculateShingleSimilarity returns exactly 0.0 without calling
\* generateShingles; at a ratio of exactly 0.7 or below it builds the two
\* shingle sets and returns their intersection / union.
C16_ShingleLengthGuard ==
    lastCall.fn = "calculateShingleSimilarity" =>
        /\ RGt(lengthRatio(snippets[1].normalizedContent, snippets[2].normalizedContent), R(7, 10))
               => lastCall.trace = [value |-> Zero, shingled |-> FALSE]
        /\ RLe(lengthRatio(snippets[1].normalizedContent, snippets[2].normalizedContent), R(7, 10))
               => /\ lastCall.trace.shingled
                  /\ lastCall.trace.value =
                         jaccard(generateShingles(snippets[1].normalizedContent),
                                 generateShingles(snippets[2].normalizedContent))

C16_Witness ==
    /\ lastCall.fn = "calculateShingleSimilarity"
    /\ lengthRatio(snippets[1].normalizedContent, snippets[2].normalizedContent) = R(7, 10)
    /\ generateShingles(snippets[1].normalizedContent) # {}
    /\ generateShingles(snippets[2].normalizedContent) # {}
    /\ lastCall.trace = [value |-> Zero, shingled |-> TRUE]

----------------------------------------------------------------------------
(* Properties of the analyze operation, checked under SpecAnalyze.         *)

\* C17: in every mode the analyze operation hands over at most maxResults
\* groups, the maxResults groups of findDuplicates' result with the highest
\* reuseScore.
C17_AtMostMaxResults ==
    reported.some =>
        /\ Len(reported.value.duplicates) <= reported.value.maxResults
        /\ reported.value.duplicates =
               SubSeq(result, 1, Min2(reported.value.maxResults, Len(result)))

----------------------------------------------------------------------------
(* Properties of the anchors of findSimilarSnippetsOptimized, checked      *)
(* under SpecRepeats.                                                      *)

firstMembersDistinct(gs) ==
    \A a, b \in 1..Len(gs) : a # b => gs[a].snippets[1] # gs[b].snippets[1]

groupIdsDistinct(gs) ==
    \A a, b \in 1..Len(gs) : a # b => gs[a].id # gs[b].id

\* the snippet whose turn it is in the loop of findSimilarSnippetsOptimized
\* is a member of a group that this run has formed
memberAtTurn ==
    /\ pc = "cluster"
    /\ i <= Len(remaining)
    /\ snippets[remaining[i]].id \in GroupIds(optGroups)

\* a turn of the loop that selects no anchor: no call of calculateSimilarity
\* and no new group
passedOver ==
    /\ i' = i + 1
    /\ scored' = scored
    /\ optGroups' = optGroups

anchorRunGroupsDistinct ==
    /\ firstMembersDistinct(optGroups)
    /\ groupIdsDistinct(optGroups)

\* C18 as stated: during one run of anchor clustering a snippet that is a
\* member of a formed group is never selected as an anchor afterwards, every
\* snippet is the first member of at most one group, and the ids of the
\* groups of the result are pairwise distinct, for every input list.
C18_GroupIdsDistinctInResult ==
    /\ [][memberAtTurn => passedOver]_vars
    /\ [](anchorRunGroupsDistinct
          /\ (pc = "done" => firstMembersDistinct(result) /\ groupIdsDistinct(result)))

\* C18: during one run of anchor clustering a snippet that is a member of a
\* formed group is never selected as an anchor afterwards; every snippet is
\* the first member of at most one group and the ids of the groups formed
\* in one run are pairwise distinct; the ids of the groups of the result
\* are pairwise distinct when the ids of the input snippets are.
C18_AnchorsNotReselected ==
    /\ [][memberAtTurn => passedOver]_vars
    /\ [](anchorRunGroupsDistinct
          /\ (pc = "done" => firstMembersDistinct(result))
          /\ (pc = "done" /\ DistinctIds => groupIdsDistinct(result)))

\* the turn of a member of a formed group that has candidates left to score
C18_Witness ==
    /\ memberAtTurn
    /\ DistinctIds
    /\ comparedWith(remaining, i) # {}

----------------------------------------------------------------------------
(* Properties of the candidates of an anchor, checked under Spec.          *)

\* C19: every call of calculateSimilarity made for an anchor has a candidate
\* that is unprocessed at that moment: its id is neither in a hash-bucket
\* group nor in a group an earlier anchor has formed.
C19_CandidatesUnprocessed ==
    [][\A c \in scored' \ scored :
           snippets[c.candidate].id \notin (processed \cup optProcessed)]_vars

\* the exclusion rules: the anchor's id, the anchor's file with the same
\* start and end lines, the anchor's file with start lines less than five
\* apart
excluded(anchor, member) ==
    \/ member.id = anchor.id
    \/ /\ member.filePath = anchor.filePath
       /\ member.startLine = anchor.startLine
       /\ member.endLine = anchor.endLine
    \/ /\ member.filePath = anchor.filePath
       /\ member.startLine - anchor.startLine < 5
       /\ anchor.startLine - member.startLine < 5

noMemberExcluded(g) ==
    \A k \in 2..Len(g.snippets) : ~excluded(snippets[g.snippets[1]], snippets[g.snippets[k]])

\* C20: in an anchor-clustered group no non-anchor member has the anchor's
\* id, the anchor's file and lines, or the anchor's file and a start line
\* less than five lines from the anchor's; no such candidate is passed to
\* calculateSimilarity.
C20_ExcludedNeverJoin ==
    /\ \A k \in 1..Len(optGroups) : noMemberExcluded(optGroups[k])
    /\ \A g \in Returned : ~isHashBucketGroup(g) => noMemberExcluded(g)
    /\ \A c \in scored : ~excluded(snippets[c.anchor], snippets[c.candidate])

\* a returned anchor-clustered group, and after its anchor in the list a
\* snippet of the anchor's type and of another id that starts less than five
\* lines from it in the same file and scores at least minSimilarity against
\* it: the snippet is not in the group (no hash bucket took it: the result
\* has no hash-bucket group)
C20_Witness ==
    /\ pc = "done"
    /\ DistinctIds
    /\ \A h \in Returned : ~isHashBucketGroup(h)
    /\ \E g \in Returned :
           /\ ~isHashBucketGroup(g)
           /\ \E p \in (g.snippets[1] + 1)..Len(snippets) :
                  /\ snippets[p].type = snippets[g.snippets[1]].type
                  /\ snippets[p].startLine # snippets[g.snippets[1]].startLine
                  /\ excluded(snippets[g.snippets[1]], snippets[p])
                  /\ joins(calculateSimilarity(snippets[g.snippets[1]], snippets[p]))
                  /\ RGt(calculateSimilarity(snippets[g.snippets[1]], snippets[p]), Zero)
                  /\ p \notin Range(g.snippets)

----------------------------------------------------------------------------
(* Properties of the member lists of the returned groups, checked under    *)
(* Spec.                                                                   *)

idsOnce(members) ==
    \A a, b \in 1..Len(members) : a # b => snippets[members[a]].id # snippets[members[b]].id

\* C21: for every input list, lists that repeat an id included, no returned
\* group has two members of the same id.
C21_NoIdTwiceInGroup ==
    \A g \in Returned : idsOnce(g.snippets)

\* the positions that are members of a group of a sequence of groups
membersOf(gs) == UNION {Range(gs[gk].snippets) : gk \in 1..Len(gs)}

atLeastTwo(gs) == \A gk \in 1..Len(gs) : Len(gs[gk].snippets) >= 2

\* the snippet at position p was an anchor that scored candidates, and none
\* of them reached minSimilarity
failedAnchor(p) ==
    /\ \E c \in scored : c.anchor = p
    /\ \A c \in scored : c.anchor = p => ~joins(c.value)

\* the turn of an unprocessed snippet none of whose candidates reaches
\* minSimilarity (it may have no candidate at all)
anchorAttractsNone ==
    /\ pc = "cluster"
    /\ i <= Len(remaining)
    /\ snippets[remaining[i]].id \notin optProcessed
    /\ \A c \in callsOf(remaining, i) : ~joins(c.value)

typeCount(type) == Cardinality({p \in 1..Len(snippets) : snippets[p].type = type})

\* C22: every group that findDuplicates forms or returns has at least two
\* members; the turn of an anchor that attracts no candidate forms no group,
\* and such an anchor is a member of no group; a category with a single
\* snippet, and so an empty input, gives no group.
C22_GroupsOfTwoOrMore ==
    /\ [][anchorAttractsNone => optGroups' = optGroups /\ optProcessed' = optProcessed]_vars
    /\ [](/\ atLeastTwo(groups) /\ atLeastTwo(optGroups) /\ atLeastTwo(result)
          /\ \A p \in 1..Len(snippets) :
                 failedAnchor(p) => p \notin membersOf(groups \o optGroups \o result)
          /\ \A gk \in 1..Len(result) :
                 typeCount(snippets[result[gk].snippets[1]].type) >= 2
          /\ (pc = "done" /\ Len(snippets) = 0 => result = <<>>))

\* a finished run with a group in the result and an anchor that scored a
\* candidate above 0 and below minSimilarity
C22_Witness ==
    /\ pc = "done"
    /\ result # <<>>
    /\ \E p \in 1..Len(snippets) :
           /\ failedAnchor(p)
           /\ \E c \in scored : c.anchor = p /\ RGt(c.value, Zero)
           /\ p \notin membersOf(result)

----------------------------------------------------------------------------
(* Properties of the cost of calculateSimilarity, checked under SpecScore. *)

\* C23: the edit distance of a pair is computed only when the hashes
\* differ, the fingerprint similarity lies in [0.5, 0.9] and the shingle
\* similarity is a defined value of at least 0.3.
C23_EditDistanceBehindGuards ==
    "editDistance" \in lastScore.metrics =>
        /\ snippets[1].hash # snippets[2].hash
        /\ RGe(fingerprintSim(snippets[1], snippets[2]), R(5, 10))
        /\ RLe(fingerprintSim(snippets[1], snippets[2]), R(9, 10))
        /\ ~IsNaN(shingleSim(snippets[1], snippets[2]))
        /\ RGe(shingleSim(snippets[1], snippets[2]), R(3, 10))

----------------------------------------------------------------------------
(* Properties of the functions that take a text, checked under SpecText.   *)

\* the number of windows of kGramSize tokens that generateShingles produces
\* for a list of n tokens
windowsOf(n) == Max2(0, Min2(100, n - 7 + 1))

\* C24: generateShingles returns at most 100 windows, exactly the distinct
\* ones among the first min(100, n - 7 + 1) windows of 7 consecutive tokens
\* of the text split at white space (n tokens); it produces no window after
\* the 100th, and none when n < 7.
C24_ShinglesCapped ==
    lastCall.fn = "generateShingles" =>
        LET tokens == Split(lastCall.content)
        IN  /\ lastCall.value =
                   {Join(SubSeq(tokens, w, w + 6)) : w \in 1..windowsOf(Len(tokens))}
            /\ Cardinality(lastCall.value) <= 100
            /\ lastCall.count = windowsOf(Len(tokens))
            /\ (Len(tokens) < 7 => lastCall.value = {})

\* a text with more than 100 windows, all different: 100 of them returned
C24_Witness ==
    /\ lastCall.fn = "generateShingles"
    /\ Len(Split(lastCall.content)) - 7 + 1 > 100
    /\ Cardinality(lastCall.value) = 100
    /\ lastCall.count = 100

----------------------------------------------------------------------------
(* Properties of the order of the members, checked under Spec.             *)

inInputOrder(members) ==
    \A a, b \in 1..Len(members) : a < b => members[a] < members[b]

allInInputOrder(gs) == \A gk \in 1..Len(gs) : inInputOrder(gs[gk].snippets)

\* the turn of the loop of findSimilarSnippetsOptimized forms a group
clusterFormed ==
    /\ pc = "cluster"
    /\ i <= Len(remaining)
    /\ Len(optGroups') = Len(optGroups) + 1

\* the snippets of the category of the run that no group holds and that
\* have not had their turn as an anchor
unprocessedAtTurn ==
    {p \in 1..Len(snippets) :
        /\ snippets[p].type = snippets[remaining[i]].type
        /\ snippets[p].id \notin (processed \cup optProcessed)
        /\ p \notin {remaining[k] : k \in 1..(i - 1)}}

\* C25: the members of every group are in input order, so its first member
\* is the earliest of them; the first member of an anchor-clustered group
\* is the snippet whose turn formed it, the first snippet of the category in
\* input order that was unprocessed at that moment.
C25_AnchorFirstInInputOrder ==
    /\ [](allInInputOrder(groups) /\ allInInputOrder(optGroups) /\ allInInputOrder(result))
    /\ [][clusterFormed =>
              /\ optGroups'[Len(optGroups')].snippets[1] = remaining[i]
              /\ remaining[i] \in unprocessedAtTurn
              /\ \A p \in unprocessedAtTurn : remaining[i] <= p]_vars

\* a returned anchor-clustered group whose anchor comes after a snippet of
\* its category that was an anchor before it and attracted no candidate
C25_Witness ==
    /\ pc = "done"
    /\ \E g \in Returned :
           /\ ~isHashBucketGroup(g)
           /\ \E p \in 1..(g.snippets[1] - 1) :
                  /\ snippets[p].type = snippets[g.snippets[1]].type
                  /\ failedAnchor(p)

----------------------------------------------------------------------------
(* Properties of the categories, checked under SpecCategories.             *)

----------------------------------------------------------------------------
(* Properties of the argument of findDuplicates, checked under Spec.       *)

\* C27: no step of findDuplicates changes its argument: the list keeps its
\* length and its order, and every snippet keeps every field.
C27_ArgumentUnchanged ==
    [][/\ Len(snippets') = Len(snippets)
       /\ \A p \in 1..Len(snippets) : snippets'[p] = snippets[p]]_vars

\* a finished call on three snippets that scored pairs and sorted two groups
C27_Witness ==
    /\ pc = "done"
    /\ Len(snippets) = 3
    /\ snippets[1] # snippets[3]
    /\ scored # {}
    /\ Len(result) >= 2

\* (31 * h + c) wrapped to the signed 32-bit range
times31Plus(h, c) ==
    LET low == 31 * lowHalf(h) + c
    IN  fromHalves(31 * highHalf(h) + (low \div Half), low % Half)

\* the polynomial hash of a text: from 0, every character in turn
RECURSIVE polynomialHashFrom(_, _, _, _)
polynomialHashFrom(text, k, last, h) ==
    IF k > last THEN h
    ELSE IF k = last THEN times31Plus(h, charCodeAt(text[k]))
    ELSE LET half == polynomialHashFrom(text, k, (k + last) \div 2, h)
         IN  IF half >= 0 \/ half < 0
             THEN polynomialHashFrom(text, ((k + last) \div 2) + 1, last, half)
             ELSE 0

polynomialHash(text) == toString36(asPair(polynomialHashFrom(text, 1, Len(text), 0)))

\* C28 as stated: generateHash of a text is the signed 32-bit polynomial hash
\* of the whole text, every character contributing, in base 36.
C28_HashOfWholeText ==
    lastCall.fn = "generateHash" => lastCall.value = polynomialHash(lastCall.content)

\* C28: generateHash of a text is the signed 32-bit polynomial hash, in base
\* 36, of the text without the header of its first `export const` arrow
\* function, without the header of its first `export function` and without
\* a semicolon at its end; it is the hash of the whole text when the text
\* has none of these.
C28_HashOfFunctionBody ==
    lastCall.fn = "generateHash" =>
        /\ \A p \in Prefixes, h \in Headers, b \in Bodies, c \in Closings :
               lastCall.content = p \o h \o b \o c => lastCall.value = polynomialHash(p \o b)
        /\ lastCall.content \in TokenTexts => lastCall.value = polynomialHash(lastCall.content)

\* the hash of a text with a header and a closing semicolon, below 0
C28_Witness ==
    /\ lastCall.fn = "generateHash"
    /\ \E p \in Prefixes, h \in Headers \ {<<>>}, b \in Bodies :
           lastCall.content = p \o h \o b \o <<";">>
    /\ lastCall.value # polynomialHash(lastCall.content)
    /\ lastCall.value[1] = "-"

\* a text whose tokens are those of the list, one blank between two
textOf(tokens) == Join(tokens)

\* the list with the tokens at k and k + 1 exchanged
exchanged(tokens, k) ==
    [j \in 1..Len(tokens) |-> IF j = k THEN tokens[k + 1] ELSE IF j = k + 1 THEN tokens[k] ELSE tokens[j]]

reversed(tokens) == [j \in 1..Len(tokens) |-> tokens[Len(tokens) + 1 - j]]

\* the sum of the hashes of the tokens k..last, each parsed back from its
\* digest: the sum of one half plus the sum of the other
RECURSIVE sumOfTokenHashes(_, _, _)
sumOfTokenHashes(tokens, k, last) ==
    IF k > last THEN pairZero
    ELSE IF k = last THEN parseInt36(generateHash(tokens[k]))
    ELSE LET upper == sumOfTokenHashes(tokens, ((k + last) \div 2) + 1, last)
             lower == sumOfTokenHashes(tokens, k, (k + last) \div 2)
         IN  IF upper.low >= 0 /\ lower.low >= 0 THEN pairAdd(upper, lower) ELSE pairZero

\* C29: the fingerprint of a text is the sum of the hashes of its tokens,
\* each parsed back from its base-36 digest, negative ones included, rendered
\* in base 36; a text with the same tokens in another order (the whole list
\* reversed, or two neighbours exchanged in a list of at most maxShingles
\* tokens) has the same fingerprint.
C29_SimHashAdditiveAnyOrder ==
    lastCall.fn = "generateSimHash" =>
        LET tokens == Split(lastCall.content)
        IN  /\ lastCall.value = toString36(sumOfTokenHashes(tokens, 1, Len(tokens)))
            /\ Len(tokens) <= maxShingles =>
                   \A k \in 1..(Len(tokens) - 1) :
                       generateSimHash(textOf(exchanged(tokens, k))) = lastCall.value
            /\ generateSimHash(textOf(reversed(tokens))) = lastCall.value

\* the fingerprint of a text with a token whose hash is below 0, whose
\* reversal is another text with another hash
C29_Witness ==
    /\ lastCall.fn = "generateSimHash"
    /\ LET tokens == Split(lastCall.content)
       IN  /\ \E k \in 1..Len(tokens) : generateHash(tokens[k])[1] = "-"
           /\ textOf(reversed(tokens)) # lastCall.content
           /\ generateHash(textOf(reversed(tokens))) # generateHash(lastCall.content)
           /\ Len(tokens) >= 3

----------------------------------------------------------------------------
(* findDuplicates on snippets whose fingerprints the parser computed from   *)
(* their texts: texts and fingerprints of different lengths, in one file   *)
(* and in two.                                                             *)

\* what the parser records of a code of `size` characters whose normalized
\* text is `text` (ast-parser.ts, lines 147-159)
Parsed(text, size) ==
    [normalizedContent |-> text,
     hash              |-> generateHash(text),
     simHash           |-> generateSimHash(text),
     size              |-> size]

\* eight tokens; fingerprint mc
TextOfEight == Parsed(W(<<"a", "b", "c", "d", "e", "f", "g", "h">>), 120)

\* the same with a ninth token; fingerprint pc
TextOfNine == Parsed(W(<<"a", "b", "c", "d", "e", "f", "g", "h", "l">>), 130)

\* nine tokens of two letters; fingerprint mc0
TextOfPairs == Parsed(Join([k \in 1..9 |-> <<"d", "t">>]), 150)

SymmetryOccurrences ==
    {<<"function", TextOfEight, Location("f1", 1, 8)>>,
     <<"function", TextOfNine, Location("f2", 1, 8)>>,
     <<"function", TextOfPairs, Location("f2", 3, 9)>>,
     <<"function", TextOfPairs, Location("f1", 1, 8)>>,
     <<"component", TextOfEight, Location("f2", 1, 8)>>}

SymmetryUniverse == {Snippet(o[1], o[2], o[3]) : o \in SymmetryOccurrences}

SymmetryInit ==
    /\ \E n \in 0..MaxSnippets : snippets \in [1..n -> SymmetryUniverse]
    /\ minSimilarity \in {R(1, 2), DefaultMinSimilarity}
    /\ fastMode \in BOOLEAN
    /\ pc = "start"
    /\ Locals

SpecSymmetry == SymmetryInit /\ [][Next]_vars

----------------------------------------------------------------------------
(* Symmetry of the score and of the exclusion rules, checked under         *)
(* SpecSymmetry.                                                           *)

sameCategoryPairs ==
    {pq \in (1..Len(snippets)) \X (1..Len(snippets)) :
        snippets[pq[1]].type = snippets[pq[2]].type}

\* the later snippets of the list of the run, each taken as the target of a
\* comparison with the anchor of the turn, that would attract the anchor
wouldAttractAnchor ==
    {k \in (i + 1)..Len(remaining) :
        /\ ~skipped(snippets[remaining[k]], snippets[remaining[i]])
        /\ joins(calculateSimilarity(snippets[remaining[k]], snippets[remaining[i]]))}

\* C30: in either mode calculateSimilarity gives a pair of snippets of one
\* category the same value in both orders, and the rules that exclude a
\* candidate hold in both orders or in neither; so when the turn of an
\* anchor attracts no candidate, no later snippet of the list, taken as the
\* target, would attract that anchor.
C30_ScoreSymmetric ==
    /\ [](\A pq \in sameCategoryPairs :
              /\ calculateSimilarity(snippets[pq[1]], snippets[pq[2]])
                     = calculateSimilarity(snippets[pq[2]], snippets[pq[1]])
              /\ skipped(snippets[pq[1]], snippets[pq[2]])
                     <=> skipped(snippets[pq[2]], snippets[pq[1]]))
    /\ [][anchorAttractsNone => wouldAttractAnchor = {}]_vars

\* in full mode, a failed anchor and a later snippet of its category that
\* was compared with it on fingerprints of different lengths, a pair of
\* texts of different lengths compared down to the edit distance, and a
\* pair that a rule excludes
C30_Witness ==
    /\ pc = "done"
    /\ ~fastMode
    /\ \E p \in 1..Len(snippets), q \in 1..Len(snippets) :
           /\ p < q
           /\ failedAnchor(p)
           /\ \E c \in scored : c.anchor = p /\ c.candidate = q /\ RGt(c.value, Zero)
           /\ Len(snippets[p].simHash) # Len(snippets[q].simHash)
    /\ \E c \in scored :
           /\ "editDistance" \in
                  calculateSimilarityTrace(snippets[c.anchor], snippets[c.candidate]).metrics
           /\ Len(snippets[c.anchor].normalizedContent)
                  # Len(snippets[c.candidate].normalizedContent)
    /\ \E pq \in sameCategoryPairs :
           /\ pq[1] # pq[2]
           /\ skipped(snippets[pq[1]], snippets[pq[2]])

====
